---- MODULE Spec2Model ----
(***************************************************************************)
(* Admission and coordination layer of myos-demo-quiz: the channel-binding *)
(* registry (DynamoTimelineRegistry), the replay guard                     *)
(* (DynamoWebhookDeliveryStore, MyOsWebhookVerifier, the webhook handler)  *)
(* and the hourly budget limiter (DynamoRateLimiter), over a key-value     *)
(* store with atomic conditional writes, consistent reads and item expiry. *)
(***************************************************************************)
EXTENDS Integers, Sequences, FiniteSets, TLC

\* ------------------------------------------------------------------ bounds

\* The store clock runs from 0 to MaxClockHours whole hours where calls may
\* stall for any time, and to WideClockHours where every call ends within the
\* hour it began in.
MaxClockHours == 3
WideClockHours == 1

\* Concurrent checkAndRegister calls in flight.
Calls == {"p1", "p2"}

\* Channel (timeline) identifiers and session identifiers of the inputs.
Channels == {"c1", "c2"}
Sessions == {"S1", "S2"}

\* ------------------------------------------------------- program constants

SecondsPerHour == 3600
MaxAttempts == 3

\* ttlHours arguments: below the floor of 1 hour, and at it.
TtlHoursInputs == {0, 1}

\* timelineIds arguments: every array of at most two entries, the empty
\* string (a falsy identifier) and repeated identifiers included.
IdInputs == Channels \cup {""}
TimelineIdInputs ==
    {<<>>} \cup {<<a>> : a \in IdInputs} \cup {<<a, b>> : a \in IdInputs, b \in IdInputs}

\* The same arrays over the single channel c1.
SingleChannelInputs == {t \in TimelineIdInputs : \A k \in 1..Len(t) : t[k] \in {"c1", ""}}

SessionInputs == Sessions \cup {""}

\* ------------------------------------------------------------------- state

VARIABLES
    clock,      \* the store's time, in seconds
    bindings,   \* the TIMELINE# items of the control table
    calls,      \* the checkAndRegister calls in flight, by slot
    config,     \* the verifier's toleranceSeconds and replayTtlSeconds
    deliveries, \* the WEBHOOK#DELIVERY items of the control table
    handlers,   \* the webhook handler invocations in flight, by slot
    marked,     \* history: per delivery, whether a verify has read the store for
                \* it, and the markHandled calls that returned (and those that
                \* returned true) since its record last expired
    limit,      \* the budget's configured limit (maxPerHour)
    budget,     \* the BUDGET# items of the control table
    grants,     \* history: the tryConsume calls that returned true, per hour bucket
    lastConsume,\* the latest tryConsume call: its instant, its bucket, what the
                \* store did, and its result
    capped,     \* CappedAiClient: forceMock, lastCallState, the generateQuestion
                \* calls in flight by slot, and history: the real client's calls
                \* per hour bucket and whether the limiter was called
    keyCache,   \* JwksKeyCache.keyCache: the imported keys and their expiry
    etag,       \* JwksKeyCache.etag: the validator of the last 200 response
    nextRefresh,\* JwksKeyCache.nextRefresh, in milliseconds
    maxAgeMs,   \* JwksKeyCache.maxAgeMs
    jwks,       \* the document the key-set endpoint serves at present
    verifying,  \* the verify calls in flight on this verifier, by slot
    rounds      \* Orchestrator: the questions table, the Round Requested
                \* deliveries in flight by slot, the deliveries marked handled,
                \* and history: the startRound calls issued per round

registryVars == <<bindings, calls>>
webhookVars == <<config, deliveries, handlers, marked>>
budgetVars == <<limit, budget, grants, lastConsume, capped, rounds>>
cacheVars == <<keyCache, etag, nextRefresh, maxAgeMs, jwks, verifying>>
vars == <<clock, registryVars, webhookVars, budgetVars, cacheVars>>

Max(a, b) == IF a >= b THEN a ELSE b

\* ------------------------------------------------------------- pure helpers

\* timelineIds.filter(Boolean)
RECURSIVE FilterBoolean(_)
FilterBoolean(s) ==
    IF s = <<>> THEN <<>>
    ELSE IF Head(s) = "" THEN FilterBoolean(Tail(s))
         ELSE <<Head(s)>> \o FilterBoolean(Tail(s))

Elems(s) == {s[k] : k \in 1..Len(s)}

\* Array.from(new Set(...)): first occurrences, in insertion order
RECURSIVE Dedupe(_, _)
Dedupe(s, seen) ==
    IF s = <<>> THEN <<>>
    ELSE IF Head(s) \in seen THEN Dedupe(Tail(s), seen)
         ELSE <<Head(s)>> \o Dedupe(Tail(s), seen \cup {Head(s)})

\* Mutant: empty identifiers are kept.
UniqueIdsUnfiltered(timelineIds) == Dedupe(timelineIds, {})

UniqueIds(timelineIds) == Dedupe(FilterBoolean(timelineIds), {})

TtlSeconds(ttlHours) == Max(1, ttlHours) * SecondsPerHour

\* The primary key of a channel's binding: the channel and a fixed sort key.
Key(timelineId) == [pk |-> <<"TIMELINE", timelineId>>, sk |-> "SESSION"]

ItemsAt(table, key) == {it \in table : it.pk = key.pk /\ it.sk = key.sk}

\* ---------------------------------------------------- the conditional store

\* Mutant: the put carries no condition and overwrites whatever is there.
PutUnconditional(table, key) == TRUE

\* PutCommand with ConditionExpression attribute_not_exists(pk)
PutConditionHolds(table, key) == ItemsAt(table, key) = {}

\* A put replaces the item of the same primary key.
PutItem(table, item) == (table \ ItemsAt(table, item)) \cup {item}

\* UpdateCommand with ConditionExpression #sessionId = :sessionId
UpdateConditionHolds(table, key, sessionId) ==
    \E it \in ItemsAt(table, key) : it.sessionId = sessionId

\* Mutant: the refresh also restarts firstSeenAt.
UpdateItemAsNew(table, key, now, exp) ==
    (table \ ItemsAt(table, key))
        \cup {[it EXCEPT !.firstSeenAt = now, !.lastSeenAt = now, !.expiresAt = exp] :
                 it \in ItemsAt(table, key)}

\* SET #lastSeenAt = :now, #exp = :exp
UpdateItem(table, key, now, exp) ==
    (table \ ItemsAt(table, key))
        \cup {[it EXCEPT !.lastSeenAt = now, !.expiresAt = exp] : it \in ItemsAt(table, key)}

\* --------------------------------------------------------- checkAndRegister

\* Mutant: the owner read back is never compared with the caller.
NeverDiffers(item, sessionId) == FALSE

\* item.sessionId !== sessionId
SessionDiffers(item, sessionId) == item.sessionId # sessionId

IdleCall ==
    [pc |-> "idle", sessionId |-> "", ids |-> <<>>, i |-> 0, attempts |-> 0,
     nowSeconds |-> 0, expiresAt |-> 0, result |-> "none",
     confirmed |-> {}, expired |-> {}]

\* The call has returned or thrown: its locals are gone, its outcome stays.
Finished(c, outcome) ==
    [c EXCEPT !.pc = "done", !.result = outcome, !.i = 0, !.attempts = 0,
              !.nowSeconds = 0, !.expiresAt = 0]

\* The call after channel i is settled: the next channel, or return true.
NextChannel(c) ==
    IF c.i < Len(c.ids)
    THEN [c EXCEPT !.pc = "put", !.i = c.i + 1, !.attempts = 0]
    ELSE Finished(c, "true")

\* Mutant: the loop has no bound.
RetryAlways(c) == [c EXCEPT !.pc = "put"]

\* The loop test `while (!bound && attempts < 3)` after an unbound attempt.
RetryOrGiveUp(c) ==
    IF c.attempts < MaxAttempts THEN [c EXCEPT !.pc = "put"] ELSE NextChannel(c)

CheckAndRegister(p, timelineIds, sessionId, ttlHours) ==
    /\ calls[p].pc = "idle"
    /\ p = "p2" => calls["p1"].pc # "idle"   \* slots are interchangeable: the first free one
    /\ LET uniqueIds == UniqueIds(timelineIds)
           begun == [IdleCall EXCEPT !.sessionId = sessionId, !.ids = uniqueIds]
       IN  calls' = [calls EXCEPT ![p] =
              IF Len(timelineIds) = 0 \/ sessionId = "" \/ Len(uniqueIds) = 0
              THEN Finished(begun, "true")
              ELSE [begun EXCEPT !.pc = "put", !.i = 1,
                        !.nowSeconds = clock,
                        !.expiresAt = clock + TtlSeconds(ttlHours)]]
    /\ UNCHANGED <<clock, bindings, webhookVars, budgetVars, cacheVars>>

PutBinding(p) ==
    LET c == calls[p]
        key == Key(c.ids[c.i])
        item == [pk |-> key.pk, sk |-> key.sk, sessionId |-> c.sessionId,
                 firstSeenAt |-> c.nowSeconds, lastSeenAt |-> c.nowSeconds,
                 expiresAt |-> c.expiresAt]
        tried == [c EXCEPT !.attempts = c.attempts + 1]
    IN  /\ c.pc = "put"
        /\ IF PutConditionHolds(bindings, key)
           THEN /\ bindings' = PutItem(bindings, item)
                /\ calls' = [calls EXCEPT ![p] =
                      NextChannel([tried EXCEPT !.confirmed = c.confirmed \cup {c.ids[c.i]}])]
           ELSE /\ calls' = [calls EXCEPT ![p] = [tried EXCEPT !.pc = "get"]]
                /\ UNCHANGED bindings
        /\ UNCHANGED <<clock, webhookVars, budgetVars, cacheVars>>

GetBinding(p) ==
    LET c == calls[p]
        existing == ItemsAt(bindings, Key(c.ids[c.i]))
    IN  /\ c.pc = "get"
        /\ calls' = [calls EXCEPT ![p] =
              IF existing = {} THEN RetryOrGiveUp(c)
              ELSE IF \E it \in existing : SessionDiffers(it, c.sessionId)
                   THEN Finished(c, "false")
                   ELSE [c EXCEPT !.pc = "update"]]
        /\ UNCHANGED <<clock, bindings, webhookVars, budgetVars, cacheVars>>

UpdateBinding(p) ==
    LET c == calls[p]
        key == Key(c.ids[c.i])
    IN  /\ c.pc = "update"
        /\ IF UpdateConditionHolds(bindings, key, c.sessionId)
           THEN /\ bindings' = UpdateItem(bindings, key, c.nowSeconds, c.expiresAt)
                /\ calls' = [calls EXCEPT ![p] =
                      NextChannel([c EXCEPT !.confirmed = c.confirmed \cup {c.ids[c.i]}])]
           ELSE /\ calls' = [calls EXCEPT ![p] = Finished(c, "throw")]
                /\ UNCHANGED bindings
        /\ UNCHANGED <<clock, webhookVars, budgetVars, cacheVars>>

\* The caller has the result; the slot takes the next call.
ReturnCall(p) ==
    /\ calls[p].pc = "done"
    /\ calls' = [calls EXCEPT ![p] = IdleCall]
    /\ UNCHANGED <<clock, bindings, webhookVars, budgetVars, cacheVars>>

\* ------------------------------------------------------- time and expiry

\* An hour passes, whatever the calls in flight are doing.
Tick ==
    /\ clock < MaxClockHours * SecondsPerHour
    /\ clock' = clock + SecondsPerHour
    /\ UNCHANGED <<registryVars, webhookVars, budgetVars, cacheVars>>

\* An hour passes between calls: no call is in flight across it (the handler's
\* invocation is cut off after 30 seconds).
TickBetweenCalls ==
    /\ clock < WideClockHours * SecondsPerHour
    /\ \A p \in Calls : calls[p].pc \in {"idle", "done"}
    /\ clock' = clock + SecondsPerHour
    /\ UNCHANGED <<registryVars, webhookVars, budgetVars, cacheVars>>

\* The store deletes an item whose expiresAt has passed.
ExpireBinding(it) ==
    /\ it \in bindings
    /\ it.expiresAt <= clock
    /\ bindings' = bindings \ {it}
    /\ calls' = [p \in Calls |->
          IF calls[p].pc # "idle" /\ it.pk[2] \in Elems(calls[p].ids)
          THEN [calls[p] EXCEPT !.expired = calls[p].expired \cup {it.pk[2]}]
          ELSE calls[p]]
    /\ UNCHANGED <<clock, webhookVars, budgetVars, cacheVars>>

\* ------------------------------------------------------------ specification

\* The parts of the state a specification leaves alone.
NoRegistry == bindings = {} /\ calls = <<>>
NoWebhook == config = <<>> /\ deliveries = {} /\ handlers = <<>> /\ marked = <<>>
NoBudget ==
    /\ limit = 0 /\ budget = {} /\ grants = <<>> /\ lastConsume = <<>>
    /\ capped = <<>> /\ rounds = <<>>
NoCache ==
    /\ keyCache = {} /\ etag = "" /\ nextRefresh = 0 /\ maxAgeMs = 0
    /\ jwks = <<>> /\ verifying = <<>>

InitRegistry ==
    /\ clock = 0
    /\ bindings = {}
    /\ calls = [p \in Calls |-> IdleCall]
    /\ NoWebhook /\ NoBudget /\ NoCache

\* Two channels, calls that end within the hour.
NextRegistry ==
    \/ \E p \in Calls, t \in TimelineIdInputs, s \in SessionInputs, h \in TtlHoursInputs :
          CheckAndRegister(p, t, s, h)
    \/ \E p \in Calls : PutBinding(p)
    \/ \E p \in Calls : GetBinding(p)
    \/ \E p \in Calls : UpdateBinding(p)
    \/ \E p \in Calls : ReturnCall(p)
    \/ TickBetweenCalls
    \/ \E it \in bindings : ExpireBinding(it)

SpecRegistry == InitRegistry /\ [][NextRegistry]_vars

\* One channel, calls that may stall for hours between two store operations.
NextRegistryLong ==
    \/ \E p \in Calls, t \in SingleChannelInputs, s \in SessionInputs, h \in TtlHoursInputs :
          CheckAndRegister(p, t, s, h)
    \/ \E p \in Calls : PutBinding(p)
    \/ \E p \in Calls : GetBinding(p)
    \/ \E p \in Calls : UpdateBinding(p)
    \/ \E p \in Calls : ReturnCall(p)
    \/ Tick
    \/ \E it \in bindings : ExpireBinding(it)

SpecRegistryLong == InitRegistry /\ [][NextRegistryLong]_vars

\* Two channels, calls that begin while every channel is free.
CheckAndRegisterFree(p, timelineIds, sessionId, ttlHours) ==
    bindings = {} /\ CheckAndRegister(p, timelineIds, sessionId, ttlHours)

NextRegistryFree ==
    \/ \E p \in Calls, t \in TimelineIdInputs, s \in SessionInputs, h \in TtlHoursInputs :
          CheckAndRegisterFree(p, t, s, h)
    \/ \E p \in Calls : PutBinding(p)
    \/ \E p \in Calls : GetBinding(p)
    \/ \E p \in Calls : UpdateBinding(p)
    \/ \E p \in Calls : ReturnCall(p)
    \/ TickBetweenCalls
    \/ \E it \in bindings : ExpireBinding(it)

SpecRegistryFree == InitRegistry /\ [][NextRegistryFree]_vars

\* The store answers every command: a call in flight takes its next step.
SpecRegistryFair ==
    SpecRegistryLong /\
        \A p \in Calls : WF_vars(PutBinding(p) \/ GetBinding(p) \/ UpdateBinding(p))

\* ---------------------------------------------------- claims: the registry

BoundTo(ch) == {it.sessionId : it \in ItemsAt(bindings, Key(ch))}

AtMostOneBinding == \A ch \in Channels : Cardinality(ItemsAt(bindings, Key(ch))) <= 1

\* A step that leaves a channel's record in place leaves its sessionId and
\* firstSeenAt as they were: a record is written by creation on absence and by
\* a refresh of lastSeenAt and expiresAt only.
SessionIdKept ==
    \A ch \in Channels :
        \A old \in ItemsAt(bindings, Key(ch)) : \A new \in ItemsAt(bindings', Key(ch)) :
            new.sessionId = old.sessionId /\ new.firstSeenAt = old.firstSeenAt

\* C1: in every reachable state each channel identifier has at most one binding
\* record, and no step changes the sessionId of a record that exists before and
\* after it, under every interleaving of checkAndRegister calls and expiry.
C1_OneBindingSessionImmutable == []AtMostOneBinding /\ [][SessionIdKept]_vars

\* C1 witness: a binding of S1 that was refreshed an hour after its creation,
\* while a call of S2 on the same channel has been turned away.
C1_Witness ==
    /\ \E it \in bindings : it.sessionId = "S1" /\ it.lastSeenAt > it.firstSeenAt
    /\ \E p \in Calls : calls[p].sessionId = "S2" /\ calls[p].result = "false"

Admitted(p) == calls[p].pc = "done" /\ calls[p].result = "true"

Rivals(p, q) ==
    /\ p # q
    /\ calls[p].sessionId \in Sessions /\ calls[q].sessionId \in Sessions
    /\ calls[p].sessionId # calls[q].sessionId
    /\ Elems(calls[p].ids) \cap Elems(calls[q].ids) # {}

\* C2 as claimed: two calls of different sessions whose channel sets share a
\* channel never both return true.
C2_NeverBothAdmitted ==
    \A p \in Calls, q \in Calls : Rivals(p, q) => ~(Admitted(p) /\ Admitted(q))

\* C2 as amended: the two calls both return true only if the binding of a
\* channel they share was removed by expiry after the earlier call began.
C2_BothAdmittedOnlyAcrossExpiry ==
    \A p \in Calls, q \in Calls :
        Rivals(p, q) /\ Admitted(p) /\ Admitted(q) =>
            (calls[p].expired \cup calls[q].expired)
                \cap (Elems(calls[p].ids) \cap Elems(calls[q].ids)) # {}

\* C2 witness: two calls of different sessions on overlapping sets, no expiry
\* in between, one admitted and the other turned away.
C2_Witness ==
    \E p \in Calls, q \in Calls :
        /\ Rivals(p, q) /\ Admitted(p)
        /\ calls[q].pc = "done" /\ calls[q].result = "false"
        /\ Len(calls[p].ids) = 2 /\ Len(calls[q].ids) = 2
        /\ calls[p].expired = {} /\ calls[q].expired = {}

\* C3 as claimed: a call with a session and a non-empty channel set returns
\* true only if it created or refreshed the binding of every channel of the set.
C3_TrueOnlyIfAllConfirmed ==
    \A p \in Calls :
        Admitted(p) /\ calls[p].sessionId # "" /\ calls[p].ids # <<>> =>
            calls[p].confirmed = Elems(calls[p].ids)

\* C4: a call on a channel set that is wholly bound to one session, none of
\* whose bindings expired since the call began, returns true when made by that
\* session and false when made by another.
C4_OwnerAdmittedOthersRefused ==
    \A p \in Calls : \A s \in Sessions :
        ( /\ calls[p].pc = "done"
          /\ calls[p].sessionId \in Sessions /\ calls[p].ids # <<>>
          /\ calls[p].expired = {}
          /\ \A ch \in Elems(calls[p].ids) : BoundTo(ch) = {s} )
        => calls[p].result = (IF calls[p].sessionId = s THEN "true" ELSE "false")

\* C4 witness: the set {c1, c2} was bound to S1 and re-claimed by S1 an hour
\* later (a refresh), and a call of S2 on the same set has returned false.
C4_Witness ==
    \E p \in Calls, q \in Calls :
        /\ calls[p].sessionId = "S1" /\ Admitted(p) /\ Len(calls[p].ids) = 2
        /\ calls[q].sessionId = "S2" /\ calls[q].pc = "done" /\ calls[q].result = "false"
        /\ Elems(calls[q].ids) = Elems(calls[p].ids)
        /\ calls[p].expired = {} /\ calls[q].expired = {}
        /\ \A it \in bindings : it.sessionId = "S1" /\ it.lastSeenAt > it.firstSeenAt
        /\ Cardinality(bindings) = 2

\* =========================================================================
\* The replay guard: MyOsWebhookVerifier, DynamoWebhookDeliveryStore and the
\* webhook handler
\* =========================================================================

\* Concurrent handler invocations, and the delivery identifiers they carry.
Handlers == {"h1", "h2"}
DeliveryIds == {"d1", "d2"}

\* Request bodies: a document event with its three channels, one that yields
\* fewer than three channel identifiers, and one that fails normalisation.
Bodies == {"event", "fewTimelines", "malformed"}

\* Verifier configurations offered to the constructor.
ToleranceInputs == {0, 300, 7200}
ReplayTtlInputs == {0, 3600}

\* computeContentDigest: the algorithm tag around the hash of the body
ComputeContentDigest(rawBody) == <<"sha-256", rawBody>>

\* An absent header.
NoHeader == <<>>


\* A well-formed signed request, and the requests that differ from one in a
\* single header.
WellFormed ==
    {[contentDigest |-> ComputeContentDigest(b), body |-> b,
      timestamp |-> [kind |-> "number", seconds |-> h * SecondsPerHour],
      deliveryId |-> d, signatureHeaders |-> TRUE, signature |-> "valid"] :
        b \in Bodies, h \in 0..MaxClockHours, d \in DeliveryIds}

Requests ==
    WellFormed \cup
    UNION {{[r EXCEPT !.contentDigest = NoHeader],
            [r EXCEPT !.contentDigest = ComputeContentDigest("malformed")],
            [r EXCEPT !.timestamp = [kind |-> "missing", seconds |-> 0]],
            [r EXCEPT !.timestamp = [kind |-> "nan", seconds |-> 0]],
            [r EXCEPT !.deliveryId = ""],
            [r EXCEPT !.signatureHeaders = FALSE],
            [r EXCEPT !.signature = "invalid"]} :
           r \in {w \in WellFormed : w.body = "event" /\ w.timestamp.seconds = 0 /\ w.deliveryId = "d1"}}

Abs(x) == IF x < 0 THEN -x ELSE x

\* The constructor's guards on toleranceSeconds and replayTtlSeconds.
Constructed(options) == options.toleranceSeconds > 0 /\ options.replayTtlSeconds > 0

\* Mutant: no header is checked.
NoHeaderGuards(req, nowSeconds, options) == "ok"

\* Mutant: the delivery identifier and the signature headers are looked at
\* before the timestamp.
HeaderGuardsLateTimestamp(req, nowSeconds, options) ==
    IF req.contentDigest = NoHeader THEN "missing_content_digest"
    ELSE IF req.contentDigest # ComputeContentDigest(req.body) THEN "invalid_content_digest"
    ELSE IF req.deliveryId = "" THEN "missing_delivery_id"
    ELSE IF ~req.signatureHeaders THEN "missing_signature"
    ELSE IF req.timestamp.kind # "number" THEN "missing_timestamp"
    ELSE IF Abs(nowSeconds - req.timestamp.seconds) > options.toleranceSeconds
         THEN "timestamp_out_of_window"
    ELSE "ok"

\* verify's header checks, in order: "ok", or the reason of the rejection.
HeaderGuards(req, nowSeconds, options) ==
    IF req.contentDigest = NoHeader THEN "missing_content_digest"
    ELSE IF req.contentDigest # ComputeContentDigest(req.body) THEN "invalid_content_digest"
    ELSE IF req.timestamp.kind # "number" THEN "missing_timestamp"
    ELSE IF Abs(nowSeconds - req.timestamp.seconds) > options.toleranceSeconds
         THEN "timestamp_out_of_window"
    ELSE IF req.deliveryId = "" THEN "missing_delivery_id"
    ELSE IF ~req.signatureHeaders THEN "missing_signature"
    ELSE "ok"

\* verify, up to the store read: the header checks, then the signature.
VerifyGuards(req, nowSeconds, options) ==
    IF HeaderGuards(req, nowSeconds, options) # "ok"
    THEN HeaderGuards(req, nowSeconds, options)
    ELSE IF req.signature # "valid" THEN "invalid_signature"
    ELSE "ok"

\* The statusCode of a WebhookVerificationError: 400 where the guard passes it,
\* the default 401 otherwise.
HeaderReasons ==
    {"missing_content_digest", "invalid_content_digest", "missing_timestamp",
     "timestamp_out_of_window", "missing_delivery_id", "missing_signature"}

DefaultStatusCode == 401

StatusCode(reason) == IF reason \in HeaderReasons THEN 400 ELSE DefaultStatusCode

DeliveryKey(deliveryId) == [pk |-> "WEBHOOK#DELIVERY", sk |-> deliveryId]

\* Mutant: the replay store never reports a delivery as seen.
NeverSeen(table, deliveryId) == FALSE

\* hasSeen: a consistent read of the delivery's record
HasSeenResult(table, deliveryId) == ItemsAt(table, DeliveryKey(deliveryId)) # {}

\* Mutant: markHandled writes without its condition.
MarkUnconditional(table, deliveryId) == TRUE

\* markHandled's ConditionExpression attribute_not_exists(pk)
MarkConditionHolds(table, deliveryId) == ItemsAt(table, DeliveryKey(deliveryId)) = {}

\* The item markHandled puts.
DeliveryItem(deliveryId, ttlSeconds, now) ==
    [pk |-> DeliveryKey(deliveryId).pk, sk |-> deliveryId,
     firstSeenAt |-> now, expiresAt |-> now + Max(1, ttlSeconds)]

\* Mutant: every payload counts as a snapshot with its three channels.
PayloadAlwaysSnapshot(body) == "snapshot"

\* mapPayloadToSnapshot and the count of channel identifiers of the snapshot
PayloadOutcome(body) ==
    CASE body = "malformed" -> "normalization_error"
      [] body = "fewTimelines" -> "timeline_structure_invalid"
      [] OTHER -> "snapshot"

IdleHandler ==
    [pc |-> "idle", deliveryId |-> "", body |-> "", duplicate |-> FALSE,
     registered |-> "none", orchestrated |-> "none", stored |-> "none",
     statusCode |-> 0, reason |-> "", verify |-> "none",
     seenAfterVerify |-> FALSE, seenAfterMark |-> FALSE, seenAfterFailure |-> FALSE]

Responded(hd, status, why) ==
    [hd EXCEPT !.pc = "done", !.statusCode = status, !.reason = why]

\* What the key set's lookup does during verifySignature: the key is
\* resolved, or the refresh fails.
KeySetInputs == {"resolved", "jwks_unreachable"}

\* Mutant: the handler goes on after an error of verify.
VerifyErrorIgnored(hd, status, why) == [hd EXCEPT !.verify = "threw", !.pc = "register"]

\* The handler's catch around verify: the error's statusCode and reason, or
\* 401 and webhook_verification_failed for any other error.
VerifyThrew(hd, status, why) == Responded([hd EXCEPT !.verify = "threw"], status, why)

\* POST /webhooks/myos: verify's guards; a rejection is answered at once.
Receive(h, req, keySet) ==
    /\ handlers[h].pc = "idle"
    /\ LET guards == VerifyGuards(req, clock, config)
           outcome == IF guards = "ok" /\ keySet # "resolved" THEN keySet ELSE guards
       IN  /\ keySet # "resolved" =>
                 guards = "ok" /\ req.body = "event" /\ req.deliveryId = "d1"
           /\ handlers' = [handlers EXCEPT ![h] =
                 IF outcome # "ok"
                 THEN VerifyThrew(IdleHandler, StatusCode(outcome), outcome)
                 ELSE [IdleHandler EXCEPT !.pc = "hasSeen",
                           !.deliveryId = req.deliveryId, !.body = req.body]]
    /\ UNCHANGED <<clock, registryVars, config, deliveries, marked, budgetVars, cacheVars>>

\* Mutant: a reported duplicate is processed like a first delivery.
ProceedAlways(hd) ==
    IF PayloadOutcome(hd.body) # "snapshot"
    THEN Responded(hd, 200, PayloadOutcome(hd.body))
    ELSE [hd EXCEPT !.pc = "register"]

\* The handler once verify has returned: a duplicate is acknowledged, a payload
\* that cannot be used is acknowledged, anything else goes to the registry.
AfterVerify(hd) ==
    IF hd.duplicate THEN Responded(hd, 200, "replay")
    ELSE IF PayloadOutcome(hd.body) # "snapshot"
         THEN Responded(hd, 200, PayloadOutcome(hd.body))
         ELSE [hd EXCEPT !.pc = "register"]

\* The end of verify: the replay store's answer.
HasSeen(h) ==
    LET hd == handlers[h]
        seen == HasSeenResult(deliveries, hd.deliveryId)
    IN  /\ hd.pc = "hasSeen"
        /\ handlers' = [handlers EXCEPT ![h] =
              AfterVerify([hd EXCEPT !.duplicate = seen, !.verify = "returned",
                  !.seenAfterVerify = marked[hd.deliveryId].verified,
                  !.seenAfterMark = marked[hd.deliveryId].returned,
                  !.seenAfterFailure =
                      \E g \in Handlers : /\ handlers[g].pc = "done"
                                          /\ handlers[g].deliveryId = hd.deliveryId
                                          /\ handlers[g].statusCode = 500])]
        /\ marked' = [marked EXCEPT ![hd.deliveryId].verified = TRUE]
        /\ UNCHANGED <<clock, registryVars, config, deliveries, budgetVars, cacheVars>>

\* Mutant: the registry's answer is not looked at.
RegisterUnheeded(h, outcome) ==
    LET hd == handlers[h]
    IN  /\ hd.pc = "register"
        /\ handlers' = [handlers EXCEPT ![h] =
              [hd EXCEPT !.registered = outcome, !.pc = "orchestrate"]]
        /\ UNCHANGED <<clock, registryVars, config, deliveries, marked, budgetVars, cacheVars>>

\* The replay store's read fails: verify throws an error that is no
\* WebhookVerificationError.
HasSeenFails(h) ==
    /\ handlers[h].pc = "hasSeen"
    /\ handlers' = [handlers EXCEPT ![h] =
          VerifyThrew(IdleHandler, DefaultStatusCode, "webhook_verification_failed")]
    /\ UNCHANGED <<clock, registryVars, config, deliveries, marked, budgetVars, cacheVars>>

\* timelineRegistry.checkAndRegister: true, false, or an error.
Register(h, outcome) ==
    LET hd == handlers[h]
        called == [hd EXCEPT !.registered = outcome]
    IN  /\ hd.pc = "register"
        /\ handlers' = [handlers EXCEPT ![h] =
              CASE outcome = "true" -> [called EXCEPT !.pc = "orchestrate"]
                [] outcome = "false" -> Responded(called, 200, "timeline_conflict")
                [] OTHER -> Responded(called, 500, "error")]
        /\ UNCHANGED <<clock, registryVars, config, deliveries, marked, budgetVars, cacheVars>>

\* Mutant: the delivery is recorded whatever the orchestrator did.
MarkRegardless(called, outcome) == [called EXCEPT !.pc = "markDelivered"]

\* markDelivered follows the awaited orchestrator; its error goes to the
\* handler's catch and the 500.
AfterOrchestrator(called, outcome) ==
    IF outcome = "ok" THEN [called EXCEPT !.pc = "markDelivered"]
    ELSE Responded(called, 500, "error")

\* orchestrator.onDocumentUpdated: it returns, or it throws.
Orchestrate(h, outcome) ==
    LET hd == handlers[h]
    IN  /\ hd.pc = "orchestrate"
        /\ handlers' = [handlers EXCEPT ![h] =
              AfterOrchestrator([hd EXCEPT !.orchestrated = outcome], outcome)]
        /\ UNCHANGED <<clock, registryVars, config, deliveries, marked, budgetVars, cacheVars>>

\* markDelivered: markHandled's conditional put, then the 200.
MarkDelivered(h) ==
    LET hd == handlers[h]
        created == MarkConditionHolds(deliveries, hd.deliveryId)
        m == marked[hd.deliveryId]
    IN  /\ hd.pc = "markDelivered"
        /\ deliveries' =
              IF created
              THEN PutItem(deliveries,
                       DeliveryItem(hd.deliveryId, config.replayTtlSeconds, clock))
              ELSE deliveries
        /\ handlers' = [handlers EXCEPT ![h] =
              Responded([hd EXCEPT !.stored = IF created THEN "true" ELSE "false"], 200, "ok")]
        /\ marked' = [marked EXCEPT ![hd.deliveryId] =
              [verified |-> m.verified, returned |-> TRUE,
               created |-> IF created /\ m.created < 2 THEN m.created + 1 ELSE m.created]]
        /\ UNCHANGED <<clock, registryVars, config, budgetVars, cacheVars>>

\* The response is out; the slot takes the next request.
Respond(h) ==
    /\ handlers[h].pc = "done"
    /\ handlers' = [handlers EXCEPT ![h] = IdleHandler]
    /\ UNCHANGED <<clock, registryVars, config, deliveries, marked, budgetVars, cacheVars>>

\* The store deletes a delivery record whose expiresAt has passed.
ExpireDelivery(it) ==
    /\ it \in deliveries
    /\ it.expiresAt <= clock
    /\ deliveries' = deliveries \ {it}
    /\ marked' = [marked EXCEPT ![it.sk] =
                     [verified |-> marked[it.sk].verified, returned |-> FALSE, created |-> 0]]
    /\ UNCHANGED <<clock, registryVars, config, handlers, budgetVars, cacheVars>>

InitWebhook ==
    /\ clock = 0
    /\ config \in {o \in [toleranceSeconds : ToleranceInputs, replayTtlSeconds : ReplayTtlInputs] :
                      Constructed(o)}
    /\ deliveries = {}
    /\ handlers = [h \in Handlers |-> IdleHandler]
    /\ marked = [d \in DeliveryIds |-> [verified |-> FALSE, returned |-> FALSE, created |-> 0]]
    /\ NoRegistry /\ NoBudget /\ NoCache

NextWebhook ==
    \/ \E h \in Handlers, req \in Requests, keySet \in KeySetInputs : Receive(h, req, keySet)
    \/ \E h \in Handlers : HasSeen(h)
    \/ \E h \in Handlers : HasSeenFails(h)
    \/ \E h \in Handlers, o \in {"true", "false", "throw"} : Register(h, o)
    \/ \E h \in Handlers, o \in {"ok", "throw"} : Orchestrate(h, o)
    \/ \E h \in Handlers : MarkDelivered(h)
    \/ \E h \in Handlers : Respond(h)
    \/ Tick
    \/ \E it \in deliveries : ExpireDelivery(it)

SpecWebhook == InitWebhook /\ [][NextWebhook]_vars

\* Deliveries that arrive one after another, each handler slot used once: the
\* slot keeps the timestamp of its request and whether the same signed request
\* had been handled and marked before it arrived.
IdleStamped ==
    [pc |-> "idle", deliveryId |-> "", body |-> "", duplicate |-> FALSE,
     registered |-> "none", orchestrated |-> "none", stored |-> "none",
     statusCode |-> 0, reason |-> "", verify |-> "none",
     seenAfterVerify |-> FALSE, seenAfterMark |-> FALSE, seenAfterFailure |-> FALSE,
     timestamp |-> 0, afterHandled |-> FALSE]

StampedRequests == {r \in WellFormed : r.body = "event"}

\* POST /webhooks/myos while no other delivery is being handled.
ReceiveStamped(h, req) ==
    /\ handlers[h].pc = "idle"
    /\ \A g \in Handlers \ {h} : handlers[g].pc \in {"idle", "done"}
    /\ LET guards == VerifyGuards(req, clock, config)
           handled == \E g \in Handlers \ {h} :
                          /\ handlers[g].pc = "done" /\ handlers[g].stored = "true"
                          /\ handlers[g].deliveryId = req.deliveryId
                          /\ handlers[g].body = req.body
                          /\ handlers[g].timestamp = req.timestamp.seconds
       IN  handlers' = [handlers EXCEPT ![h] =
              IF guards # "ok"
              THEN VerifyThrew(IdleStamped, StatusCode(guards), guards)
              ELSE [IdleStamped EXCEPT !.pc = "hasSeen",
                        !.deliveryId = req.deliveryId, !.body = req.body,
                        !.timestamp = req.timestamp.seconds, !.afterHandled = handled]]
    /\ UNCHANGED <<clock, registryVars, config, deliveries, marked, budgetVars, cacheVars>>

InitReplay ==
    /\ clock = 0
    /\ config \in {o \in [toleranceSeconds : ToleranceInputs, replayTtlSeconds : ReplayTtlInputs] :
                      Constructed(o)}
    /\ deliveries = {}
    /\ handlers = [h \in Handlers |-> IdleStamped]
    /\ marked = [d \in DeliveryIds |-> [verified |-> FALSE, returned |-> FALSE, created |-> 0]]
    /\ NoRegistry /\ NoBudget /\ NoCache

NextReplay ==
    \/ \E h \in Handlers, req \in StampedRequests : ReceiveStamped(h, req)
    \/ \E h \in Handlers : HasSeen(h)
    \/ \E h \in Handlers, o \in {"true", "false", "throw"} : Register(h, o)
    \/ \E h \in Handlers, o \in {"ok", "throw"} : Orchestrate(h, o)
    \/ \E h \in Handlers : MarkDelivered(h)
    \/ Tick
    \/ \E it \in deliveries : ExpireDelivery(it)

SpecReplay == InitReplay /\ [][NextReplay]_vars

\* ------------------------------------------------ claims: the replay guard

Verified(h) == handlers[h].pc \notin {"idle", "hasSeen"} /\ handlers[h].deliveryId # ""

RecordsOf(d) == ItemsAt(deliveries, DeliveryKey(d))

CreatedOnce ==
    \A d \in DeliveryIds :
        /\ Cardinality(RecordsOf(d)) <= 1
        /\ marked[d].created <= 1
        /\ marked[d].returned => marked[d].created = 1 /\ RecordsOf(d) # {}

\* A record, once created, keeps its firstSeenAt and expiresAt for as long as it
\* exists; a markHandled that returns false changes nothing in the table.
RecordKept ==
    /\ \A it \in deliveries : RecordsOf(it.sk)' # {} => it \in deliveries'
    /\ \A h \in Handlers :
          handlers[h].stored = "none" /\ handlers'[h].stored = "false"
              => deliveries' = deliveries

\* C5: of the markHandled calls for one delivery identifier with no expiry in
\* between, exactly one returns true and the others return false; the record is
\* created once, and a call that returns false leaves its firstSeenAt and
\* expiresAt as they were.
C5_ExactlyOneMarkHandledWins == []CreatedOnce /\ [][RecordKept]_vars

\* Two handlers that both read the store before either marked: one created the
\* record, the other was refused.
C5_Witness ==
    /\ handlers["h1"].stored = "true" /\ handlers["h2"].stored = "false"
    /\ handlers["h1"].deliveryId = handlers["h2"].deliveryId
    /\ ~handlers["h1"].seenAfterMark /\ ~handlers["h2"].seenAfterMark

\* C6: a handling whose verify reads the store after an earlier handling of the
\* same delivery identifier finished gets duplicate=true, answers 200, and neither
\* runs the orchestrator nor calls markDelivered; the earlier one got
\* duplicate=false, and reached markDelivered through the orchestrator.
C6_SecondDeliveryIsAcknowledgedOnly ==
    \A h \in Handlers :
        LET hd == handlers[h]
        IN  Verified(h) =>
              /\ hd.seenAfterMark =>
                    /\ hd.duplicate
                    /\ hd.pc = "done" /\ hd.statusCode = 200 /\ hd.reason = "replay"
                    /\ hd.registered = "none" /\ hd.orchestrated = "none"
                    /\ hd.stored = "none"
              /\ ~hd.seenAfterVerify => ~hd.duplicate
              /\ (~hd.duplicate /\ hd.pc = "done" /\ hd.reason = "ok") =>
                    hd.orchestrated = "ok" /\ hd.stored # "none"

C6_Witness ==
    /\ handlers["h1"].stored = "true" /\ handlers["h1"].orchestrated = "ok"
    /\ ~handlers["h1"].duplicate /\ handlers["h1"].statusCode = 200
    /\ handlers["h2"].deliveryId = handlers["h1"].deliveryId
    /\ handlers["h2"].seenAfterMark /\ handlers["h2"].duplicate
    /\ handlers["h2"].pc = "done" /\ handlers["h2"].statusCode = 200

\* A well-formed signed request whose timestamp is within the tolerance passes
\* every guard of verify.
WellFormedAccepted ==
    \A r \in WellFormed :
        Abs(clock - r.timestamp.seconds) <= config.toleranceSeconds
            => VerifyGuards(r, clock, config) = "ok"

\* C7 as stated: the first verify of a delivery identifier returns
\* duplicate=false and every later verify of it returns duplicate=true.
C7_EveryLaterVerifyIsDuplicate ==
    /\ WellFormedAccepted
    /\ \A h \in Handlers :
          Verified(h) => (handlers[h].duplicate <=> handlers[h].seenAfterVerify)

\* C7: the first verify of a delivery identifier returns duplicate=false, and a
\* later verify of it returns duplicate=true exactly when it reads the store
\* after a markDelivered for that identifier completed and before the record it
\* wrote expired.
C7_DuplicateOnlyAfterMarkDelivered ==
    /\ WellFormedAccepted
    /\ \A h \in Handlers :
          Verified(h) =>
              /\ ~handlers[h].seenAfterVerify => ~handlers[h].duplicate
              /\ handlers[h].duplicate <=> handlers[h].seenAfterMark

\* A second verify of the identifier, before any markDelivered: not a duplicate.
C7_Witness ==
    \E h \in Handlers :
        /\ Verified(h) /\ handlers[h].seenAfterVerify
        /\ ~handlers[h].seenAfterMark /\ ~handlers[h].duplicate
        /\ \E g \in Handlers \ {h} :
              /\ handlers[g].deliveryId = handlers[h].deliveryId
              /\ handlers[g].seenAfterMark /\ handlers[g].duplicate

\* C8: a handler whose hasSeen read came after a completed markHandled for its
\* delivery identifier, the record not yet expired, never runs the
\* orchestrator; so every handler that ran it read the store before a
\* markHandled for the identifier completed.
C8_DoubleProcessingOnlyBeforeMark ==
    \A h \in Handlers :
        /\ handlers[h].orchestrated # "none" => ~handlers[h].seenAfterMark
        /\ handlers[h].pc \in {"register", "orchestrate", "markDelivered"}
              => ~handlers[h].seenAfterMark

\* Both handlers of one delivery ran the orchestrator.
C8_Witness ==
    /\ handlers["h1"].deliveryId = handlers["h2"].deliveryId
    /\ handlers["h1"].orchestrated = "ok" /\ handlers["h2"].orchestrated = "ok"
    /\ handlers["h1"].stored = "true"

MarkedOnlyAfterSuccess ==
    \A h \in Handlers :
        LET hd == handlers[h]
        IN  /\ (hd.pc = "markDelivered" \/ hd.stored # "none")
                  => hd.orchestrated = "ok" /\ hd.registered = "true"
            /\ (hd.orchestrated = "throw" \/ hd.registered = "throw")
                  => hd.pc = "done" /\ hd.statusCode = 500 /\ hd.stored = "none"
            /\ (Verified(h) /\ hd.seenAfterFailure /\ ~hd.seenAfterMark) => ~hd.duplicate

\* The step in which the orchestrator or the registry throws writes no record.
ThrowWritesNothing ==
    \A h \in Handlers :
        handlers[h].pc # "done" /\ handlers'[h].pc = "done" /\ handlers'[h].statusCode = 500
            => deliveries' = deliveries

\* C9: markDelivered is called only after the orchestrator returned without
\* error; when the orchestrator or the channel-binding call throws, no delivery
\* record is written, and a retry with the same identifier is processed again
\* with duplicate=false.
C9_MarkDeliveredOnlyAfterOrchestrator ==
    []MarkedOnlyAfterSuccess /\ [][ThrowWritesNothing]_vars

\* The orchestrator threw for a delivery; the retry runs it again.
C9_Witness ==
    /\ handlers["h1"].orchestrated = "throw" /\ handlers["h1"].statusCode = 500
    /\ handlers["h2"].deliveryId = handlers["h1"].deliveryId
    /\ handlers["h2"].seenAfterFailure /\ ~handlers["h2"].duplicate
    /\ handlers["h2"].orchestrated = "ok" /\ handlers["h2"].stored = "true"

\* =========================================================================
\* The hourly budget: DynamoRateLimiter
\* =========================================================================

MaxLimit == 3

\* The hours the budget is followed for.
MaxBudgetHours == 2
SecondsPerDay == 86400

\* The windowSeconds a caller passes; the capped client passes 3600.
WindowInputs == {60, 3600}

\* Where in the hour a call reads its clock; -1 is a call that read it just
\* before the hour turned and reaches the store after.
OffsetInputs == {-1, 0}

\* Mutant: the bucket is the UTC day.
FormatUtcDay(now) == <<now \div SecondsPerDay, 0>>

\* formatUtcHour: the UTC date and hour of the instant (the date as a day number)
FormatUtcHour(now) == <<now \div SecondsPerDay, (now % SecondsPerDay) \div SecondsPerHour>>

HourKeys == {FormatUtcHour(h * SecondsPerHour) : h \in 0..MaxBudgetHours}

\* computeExpiry: the start of the hour, plus the window, plus one hour
ComputeExpiry(now, windowSeconds) ==
    (now \div SecondsPerHour) * SecondsPerHour + windowSeconds + SecondsPerHour

BudgetKey(now) == [pk |-> "BUDGET#OPENAI", sk |-> <<"HOUR", FormatUtcHour(now)>>]

\* Mutant: the counter may be incremented while it equals the limit.
ConsumeAtLimit(items, lim) == \A it \in items : it.count <= lim

\* ConditionExpression attribute_not_exists(#count) OR #count < :limit
ConsumeConditionHolds(items, lim) == \A it \in items : it.count < lim

\* SET #count = if_not_exists(#count, :zero) + :one, #limit = :limit, #exp = :exp
Consumed(table, key, lim, exp) ==
    LET old == ItemsAt(table, key)
        count == IF old = {} THEN 0 ELSE (CHOOSE it \in old : TRUE).count
    IN  (table \ old) \cup
          {[pk |-> key.pk, sk |-> key.sk, count |-> count + 1, limit |-> lim, expiresAt |-> exp]}

\* What the store does with the update: it answers, or it fails without
\* applying it.
StoreInputs == {"answers", "fails"}

\* What client.send gives back to tryConsume.
SendResult(store, conditionHolds) ==
    IF store # "answers" THEN "Error"
    ELSE IF conditionHolds THEN "Ok" ELSE "ConditionalCheckFailedException"

\* Mutant: a failed condition is rethrown like any other error.
RethrowAll(sent) == IF sent = "Ok" THEN "true" ELSE "error"

\* The try/catch around client.send: true, false for a failed condition, the
\* error rethrown otherwise.
TryConsumeOutcome(sent) ==
    CASE sent = "Ok" -> "true"
      [] sent = "ConditionalCheckFailedException" -> "false"
      [] OTHER -> "error"

\* tryConsume: one conditional update; true when it was applied, false when its
\* condition failed.
TryConsumeCall(offset, windowSeconds, store) ==
    LET now == clock + offset
        key == BudgetKey(now)
        old == ItemsAt(budget, key)
        conditionHolds == ConsumeConditionHolds(old, limit)
        outcome == TryConsumeOutcome(SendResult(store, conditionHolds))
        allowed == outcome = "true"
    IN  /\ now >= 0
        /\ budget' = IF conditionHolds /\ store = "answers"
                     THEN Consumed(budget, key, limit, ComputeExpiry(now, windowSeconds))
                     ELSE budget
        /\ grants' = IF allowed /\ grants[key.sk[2]] <= MaxLimit
                     THEN [grants EXCEPT ![key.sk[2]] = @ + 1]
                     ELSE grants
        /\ lastConsume' = [hour |-> key.sk[2], result |-> allowed, now |-> now,
                           store |-> store, outcome |-> outcome,
                           windowChanged |->
                               \E it \in old : it.expiresAt # ComputeExpiry(now, windowSeconds)]
        /\ UNCHANGED <<clock, registryVars, webhookVars, cacheVars, limit>>

\* tryConsume called on the limiter directly.
TryConsume(offset, windowSeconds, store) ==
    TryConsumeCall(offset, windowSeconds, store) /\ UNCHANGED <<capped, rounds>>

\* An hour passes for the budget.
TickBudget ==
    /\ clock < MaxBudgetHours * SecondsPerHour
    /\ clock' = clock + SecondsPerHour
    /\ UNCHANGED <<registryVars, webhookVars, budgetVars, cacheVars>>

\* The store deletes a budget item whose expiresAt has passed.
ExpireBudget(it) ==
    /\ it \in budget
    /\ it.expiresAt <= clock
    /\ budget' = budget \ {it}
    /\ UNCHANGED <<clock, registryVars, webhookVars, cacheVars, limit, grants, lastConsume,
                   capped, rounds>>

InitBudget ==
    /\ clock = 0
    /\ limit \in 0..MaxLimit
    /\ budget = {}
    /\ grants = [k \in HourKeys |-> 0]
    /\ lastConsume = [hour |-> FormatUtcHour(0), result |-> FALSE, now |-> 0,
                      store |-> "answers", outcome |-> "none", windowChanged |-> FALSE]
    /\ capped = <<>>
    /\ rounds = <<>>
    /\ NoRegistry /\ NoWebhook /\ NoCache

NextBudget ==
    \/ \E offset \in OffsetInputs, windowSeconds \in WindowInputs, store \in StoreInputs :
          TryConsume(offset, windowSeconds, store)
    \/ TickBudget
    \/ \E it \in budget : ExpireBudget(it)

SpecBudget == InitBudget /\ [][NextBudget]_vars

\* ------------------------------------------------------- CappedAiClient

\* generateQuestion calls in flight.
Generators == {"g1", "g2"}

\* The windowSeconds generateQuestion passes to the limiter.
CappedWindowSeconds == 3600

IdleGenerate ==
    [pc |-> "idle", allowed |-> "none", hour |-> FormatUtcHour(0), client |-> "none"]

\* Mutant: the limiter's answer is not looked at.
RealWhatever(gen, outcome, hour) ==
    IF outcome = "error" THEN [gen EXCEPT !.pc = "done", !.allowed = outcome, !.client = "error"]
    ELSE [gen EXCEPT !.pc = "real", !.allowed = outcome, !.hour = hour]

\* `if (allowed)`: the real client after true, the mock client after false; the
\* limiter's error leaves generateQuestion.
AfterTryConsume(gen, outcome, hour) ==
    CASE outcome = "true" -> [gen EXCEPT !.pc = "real", !.allowed = outcome, !.hour = hour]
      [] outcome = "false" -> [gen EXCEPT !.pc = "mock", !.allowed = outcome, !.hour = hour]
      [] OTHER -> [gen EXCEPT !.pc = "done", !.allowed = outcome, !.client = "error"]

\* generateQuestion, up to the limiter: forceMock, then the test of maxPerHour.
GenerateQuestion(g) ==
    /\ capped.calls[g].pc = "idle"
    /\ capped' =
          IF capped.forceMock
          THEN [capped EXCEPT !.lastCallState = "mock_force", !.calls[g].pc = "mock"]
          ELSE IF limit <= 0
               THEN [capped EXCEPT !.lastCallState = "real", !.calls[g].pc = "real",
                                   !.calls[g].hour = FormatUtcHour(clock)]
               ELSE [capped EXCEPT !.calls[g].pc = "consume"]
    /\ UNCHANGED <<clock, registryVars, webhookVars, cacheVars, limit, budget, grants,
                   lastConsume, rounds>>

\* limiter.tryConsume({budget: 'openai', windowSeconds: 3600, limit: maxPerHour})
\* and the branch on its answer.
ConsumeBudget(g, offset, store) ==
    /\ capped.calls[g].pc = "consume"
    /\ TryConsumeCall(offset, CappedWindowSeconds, store)
    /\ LET outcome == lastConsume'.outcome
           gen == AfterTryConsume(capped.calls[g], outcome, lastConsume'.hour)
       IN  capped' = [capped EXCEPT
              !.limiterCalled = TRUE,
              !.calls[g] = gen,
              !.lastCallState = CASE gen.pc = "real" -> "real"
                                  [] gen.pc = "mock" -> "mock_limit"
                                  [] OTHER -> @]
    /\ UNCHANGED rounds

\* realClient.generateQuestion
CallReal(g) ==
    LET gen == capped.calls[g]
    IN  /\ gen.pc = "real"
        /\ capped' = [capped EXCEPT
              !.calls[g] = [gen EXCEPT !.pc = "done", !.client = "real"],
              !.real[gen.hour] = IF @ <= MaxLimit THEN @ + 1 ELSE @]
        /\ UNCHANGED <<clock, registryVars, webhookVars, cacheVars, limit, budget, grants,
                       lastConsume, rounds>>

\* mockClient.generateQuestion
CallMock(g) ==
    LET gen == capped.calls[g]
    IN  /\ gen.pc = "mock"
        /\ capped' = [capped EXCEPT !.calls[g] = [gen EXCEPT !.pc = "done", !.client = "mock"]]
        /\ UNCHANGED <<clock, registryVars, webhookVars, cacheVars, limit, budget, grants,
                       lastConsume, rounds>>

\* generateQuestion has returned or thrown; the slot takes the next call.
ReturnGenerate(g) ==
    /\ capped.calls[g].pc = "done"
    /\ capped' = [capped EXCEPT !.calls[g] = IdleGenerate]
    /\ UNCHANGED <<clock, registryVars, webhookVars, cacheVars, limit, budget, grants,
                   lastConsume, rounds>>

InitCapped ==
    /\ clock = 0
    /\ limit \in 0..MaxLimit
    /\ budget = {}
    /\ grants = [k \in HourKeys |-> 0]
    /\ lastConsume = [hour |-> FormatUtcHour(0), result |-> FALSE, now |-> 0,
                      store |-> "answers", outcome |-> "none", windowChanged |-> FALSE]
    /\ capped \in {[forceMock |-> f, lastCallState |-> "none", limiterCalled |-> FALSE,
                     calls |-> [g \in Generators |-> IdleGenerate],
                     real |-> [k \in HourKeys |-> 0]] : f \in BOOLEAN}
    /\ rounds = <<>>
    /\ NoRegistry /\ NoWebhook /\ NoCache

NextCapped ==
    \/ \E g \in Generators : GenerateQuestion(g)
    \/ \E g \in Generators, offset \in OffsetInputs, store \in StoreInputs :
          ConsumeBudget(g, offset, store)
    \/ \E g \in Generators : CallReal(g)
    \/ \E g \in Generators : CallMock(g)
    \/ \E g \in Generators : ReturnGenerate(g)
    \/ TickBudget
    \/ \E it \in budget : ExpireBudget(it)

SpecCapped == InitCapped /\ [][NextCapped]_vars

\* --------------------------------------------------- claims: the budget

\* C10: with a limit L >= 1, the stored counter of an hour bucket never exceeds
\* L, and no more than L tryConsume calls of that hour return true, whatever
\* the order in which the calls reach the store.
C10_CounterAndGrantsWithinLimit ==
    limit >= 1 =>
        /\ \A it \in budget : it.count <= limit /\ it.count >= 1
        /\ \A k \in HourKeys : grants[k] <= limit

\* The bucket is full and a further call of that hour has been refused.
C10_Witness ==
    /\ limit >= 2
    /\ \E it \in budget : it.count = limit /\ it.sk[2] = lastConsume.hour
    /\ grants[lastConsume.hour] = limit
    /\ ~lastConsume.result

\* The hour an instant falls in, counted from the epoch, and the hour a bucket
\* key stands for.
HoursPerDay == 24
UtcHourOf(now) == now \div SecondsPerHour
HourOfKey(windowKey) == windowKey[1] * HoursPerDay + windowKey[2]

CountAt(table, hour) ==
    IF \E it \in table : HourOfKey(it.sk[2]) = hour
    THEN (CHOOSE it \in table : HourOfKey(it.sk[2]) = hour).count
    ELSE 0

\* A step that is a tryConsume call.
Consuming == lastConsume' # lastConsume \/ budget' \ budget # {}

\* No bucket exists for an hour that has not begun.
NoBucketAhead == \A it \in budget : HourOfKey(it.sk[2]) <= UtcHourOf(clock)

ConsumesUpToLimit ==
    (Consuming /\ limit >= 1 /\ lastConsume'.store = "answers") =>
        LET hour == UtcHourOf(lastConsume'.now)
            before == CountAt(budget, hour)
        IN  /\ before < limit =>
                  lastConsume'.result /\ CountAt(budget', hour) = before + 1
            /\ before >= limit => ~lastConsume'.result /\ budget' = budget

\* C11: in one UTC hour the calls return true until the counter has reached the
\* limit (with limit 2: the first and the second) and false from then on (the
\* third); an hour that has just begun has no counter, so its first call returns
\* true again.
C11_TrueUntilLimitThenFalse == []NoBucketAhead /\ [][ConsumesUpToLimit]_vars

\* Limit 2: the first hour granted two calls, the hour of the latest call has
\* granted two more and has now refused one.
C11_Witness ==
    /\ limit = 2
    /\ grants[FormatUtcHour(0)] = 2
    /\ lastConsume.hour # FormatUtcHour(0)
    /\ grants[lastConsume.hour] = 2
    /\ lastConsume.outcome = "false"

ErrorOnlyOnStoreFailure ==
    lastConsume.outcome # "none" =>
        /\ lastConsume.outcome = "error" <=> lastConsume.store = "fails"
        /\ lastConsume.outcome = "error" => ~lastConsume.result
        /\ lastConsume.result <=> lastConsume.outcome = "true"

ExhaustedIsFalse ==
    Consuming =>
        /\ (lastConsume'.store = "answers"
              /\ CountAt(budget, UtcHourOf(lastConsume'.now)) >= Max(1, limit))
              => lastConsume'.outcome = "false"
        /\ lastConsume'.outcome = "error" => budget' = budget /\ grants' = grants

\* C12: a call that finds the budget exhausted returns false and raises
\* nothing; a call raises an error only when the store failed for another
\* reason, and such a call does not return true.
C12_ExhaustedIsFalseNotError == []ErrorOnlyOnStoreFailure /\ [][ExhaustedIsFalse]_vars

\* The store failed under a call on a bucket that had granted its limit.
C12_Witness ==
    /\ limit >= 1
    /\ lastConsume.outcome = "error"
    /\ grants[lastConsume.hour] = limit
    /\ CountAt(budget, HourOfKey(lastConsume.hour)) = limit

OneBucketPerHour ==
    /\ \A a \in budget, b \in budget : a.sk = b.sk => a = b
    /\ \A a \in 0..MaxBudgetHours, b \in 0..MaxBudgetHours, x \in {0, 1, SecondsPerHour - 1} :
          LET n1 == a * SecondsPerHour + x
              n2 == b * SecondsPerHour
          IN  FormatUtcHour(n1) = FormatUtcHour(n2) <=> a = b

ConsumesInHourOfNow ==
    Consuming =>
        LET hour == UtcHourOf(lastConsume'.now)
        IN  /\ HourOfKey(lastConsume'.hour) = hour
            /\ \A it \in (budget' \ budget) \cup (budget \ budget') :
                  it.pk = "BUDGET#OPENAI" /\ it.sk[1] = "HOUR" /\ HourOfKey(it.sk[2]) = hour

\* C13: a call consumes from the bucket of the UTC hour that contains its now,
\* whatever its windowSeconds: calls of one hour share a bucket, calls of
\* different hours never do.
C13_BucketIsUtcHourOfNow == []OneBucketPerHour /\ [][ConsumesInHourOfNow]_vars

\* Two calls with different windowSeconds consumed from one bucket, while the
\* bucket of another hour stands beside it.
C13_Witness ==
    /\ lastConsume.windowChanged /\ lastConsume.result
    /\ CountAt(budget, HourOfKey(lastConsume.hour)) >= 2
    /\ \E it \in budget : it.sk[2] # lastConsume.hour

\* =========================================================================
\* The signature verifier and the key cache: MyOsWebhookVerifier.verify,
\* verifySignature and JwksKeyCache
\* =========================================================================

DEFAULT_CACHE_TTL_MS == 300000
MsPerSecond == 1000

\* The key cache is followed in steps of a third of its default lifetime.
MaxCacheTicks == 4
CacheTickSeconds == DEFAULT_CACHE_TTL_MS \div (3 * MsPerSecond)

Kids == {"k1", "k2"}
KeyidInputs == Kids \cup {""}

\* What verifyMessage makes of the signature once it has the key: it verifies;
\* it cannot be parsed (no key is looked up); a covered field was altered or
\* the created parameter is too old (the library throws); the library returns
\* false, or null.
SignatureInputs == {"valid", "malformed", "tampered", "expired_created", "false", "null"}

\* A request with its signature and the key identifier the signature names.
Signed(r, sg, k) ==
    [contentDigest |-> r.contentDigest, body |-> r.body, timestamp |-> r.timestamp,
     deliveryId |-> r.deliveryId, signatureHeaders |-> r.signatureHeaders,
     signature |-> sg, keyid |-> k]

\* The requests a verifier is given: well-formed ones with any signature and
\* any key identifier, and ones with a header fault, signed well or not.
VerifierRequests ==
    LET sent == {q \in Requests : q.body = "event" /\ q.timestamp.seconds = 0}
    IN  {Signed(r, sg, k) : r \in {q \in sent \cap WellFormed : q.deliveryId = "d1"},
                            sg \in SignatureInputs, k \in KeyidInputs}
          \cup {Signed(r, "valid", k) : r \in {q \in sent \cap WellFormed : q.deliveryId = "d2"},
                                       k \in Kids}
          \cup {Signed(r, sg, "k1") : r \in sent \ WellFormed, sg \in {"valid", "tampered"}}

\* A Cache-Control header: its directives, each a name and the text after '='
\* as parseInt reads it (none, not a number, or an integer).
Directive(name, kind, n) == [name |-> name, kind |-> kind, int |-> n]

CacheControlInputs ==
    {<<>>,
     <<Directive("max-age", "int", CacheTickSeconds)>>,
     <<Directive("no-cache", "none", 0), Directive("max-age", "int", 0)>>,
     <<Directive("max-age", "nan", 0)>>}

Undefined == -1

\* parseMaxAge: the first max-age directive with a non-negative integer
RECURSIVE ParseMaxAge(_)
ParseMaxAge(directives) ==
    IF directives = <<>> THEN Undefined
    ELSE LET d == Head(directives)
         IN  IF d.name = "max-age" /\ d.kind = "int" /\ d.int >= 0
             THEN d.int
             ELSE ParseMaxAge(Tail(directives))

Jwk(kid, kty) == [kid |-> kid, kty |-> kty, crv |-> IF kty = "OKP" THEN "Ed25519" ELSE "", x |-> "x"]

\* createVerifierFromJwk: a verifier for an OKP/Ed25519 key with x and kid
Supported(jwk) == jwk.kty = "OKP" /\ jwk.crv = "Ed25519" /\ jwk.x # "" /\ jwk.kid # ""

\* The documents the key-set endpoint may serve: both keys; one key, no
\* Cache-Control; no supported key; a payload without a keys array; one key
\* with max-age=0 and no ETag; one key with max-age=0 and an ETag.
Document(payload, keys, tag, cacheControl) ==
    [payload |-> payload, keys |-> keys, etag |-> tag, cacheControl |-> cacheControl]

Documents ==
    {Document("keys", {Jwk("k1", "OKP"), Jwk("k2", "OKP")}, "v1",
              <<Directive("max-age", "int", CacheTickSeconds)>>),
     Document("keys", {Jwk("k1", "OKP")}, "v2", <<>>),
     Document("keys", {Jwk("k2", "RSA"), Jwk("", "OKP")}, "v3", <<Directive("max-age", "nan", 0)>>),
     Document("invalid", {}, "v4", <<>>),
     Document("keys", {Jwk("k1", "OKP")}, "",
              <<Directive("no-cache", "none", 0), Directive("max-age", "int", 0)>>),
     Document("keys", {Jwk("k1", "OKP")}, "v5", <<Directive("max-age", "int", 0)>>)}

\* The identifiers of the supported keys of a document.
ServedKids(doc) == {k.kid : k \in {j \in doc.keys : Supported(j)}}

\* keyCache.get(kid), and the test get applies to it.
Cached(cache, kid) == {c \in cache : c.kid = kid}
Fresh(cache, kid, nowMs) == \E c \in Cached(cache, kid) : c.expiresAt > nowMs

\* bumpKeyExpiry
BumpKeyExpiry(cache, nextExpiry) == {[c EXCEPT !.expiresAt = nextExpiry] : c \in cache}

\* The loop over payload.keys: keyCache.set for every supported key.
Imported(cache, keys, expiry) ==
    LET fresh == {k \in keys : Supported(k)}
    IN  {c \in cache : \A k \in fresh : k.kid # c.kid}
          \cup {[kid |-> k.kid, x |-> k.x, expiresAt |-> expiry] : k \in fresh}

Verifiers == {"v1"}

\* No response has been received.
NoResponse == Document("none", {}, "", <<>>)

IdleVerify ==
    [pc |-> "idle", req |-> <<>>, reason |-> "", statusCode |-> 0, duplicate |-> FALSE,
     now |-> 0, sentEtag |-> "", signatures |-> 0, lookups |-> 0, fetches |-> 0,
     storeReads |-> 0, served |-> {}, response |-> NoResponse, later |-> FALSE]

\* A WebhookVerificationError leaves verify.
Rejected(vd, reason) ==
    [vd EXCEPT !.pc = "done", !.reason = reason, !.statusCode = StatusCode(reason)]

\* verifyMessage with the key in hand: true, false, null, or it throws.
LibraryResult(signature) ==
    CASE signature = "valid" -> "true"
      [] signature \in {"false", "null"} -> signature
      [] OTHER -> "throws"

\* verifySignature's catch and its test of the result: the reason thrown, or "ok".
SignatureReason(result) ==
    CASE result = "true" -> "ok"
      [] result = "throws" -> "invalid_signature"
      [] OTHER -> "signature_indeterminate"

\* The key is resolved: the signature is verified, and then the replay store is read.
WithKey(vd) ==
    LET why == SignatureReason(LibraryResult(vd.req.signature))
    IN  IF why # "ok" THEN Rejected(vd, why)
        ELSE [vd EXCEPT !.pc = "done", !.reason = "ok", !.storeReads = 1,
                        !.duplicate = HasSeenResult(deliveries, vd.req.deliveryId)]

LookUpAssumesKey(vd, cache, nowMs) == WithKey(vd)

\* get's last lookup: the key if it is cached and not expired, else null, which
\* keyLookup turns into UnknownKeyError.
LookUpAgain(vd, cache, nowMs) ==
    IF Fresh(cache, vd.req.keyid, nowMs) THEN WithKey(vd) ELSE Rejected(vd, "invalid_signature")

\* verify, up to the key-set fetch if one is needed: the header checks, the
\* signature's key identifier, the cache lookup, refresh's nextRefresh test.
Verify(v, req) ==
    LET nowMs == clock * MsPerSecond
        vd == [IdleVerify EXCEPT !.req = req, !.now = nowMs]
        guard == HeaderGuards(req, clock, config)
        checked == [vd EXCEPT !.signatures = 1]
        asked == [checked EXCEPT !.lookups = 1]
    IN  /\ verifying[v].pc = "idle"
        /\ verifying' = [verifying EXCEPT ![v] =
              IF guard # "ok" THEN Rejected(vd, guard)
              ELSE IF req.signature = "malformed" THEN Rejected(checked, "invalid_signature")
              ELSE IF req.keyid = "" THEN Rejected(checked, "invalid_signature")
              ELSE IF Fresh(keyCache, req.keyid, nowMs) THEN WithKey(asked)
              ELSE IF nextRefresh > nowMs THEN LookUpAgain(asked, keyCache, nowMs)
              ELSE [asked EXCEPT !.pc = "fetching", !.sentEtag = etag, !.fetches = 1]]
        /\ UNCHANGED <<clock, registryVars, webhookVars, budgetVars,
                       keyCache, etag, nextRefresh, maxAgeMs, jwks>>

FetchFailsAndDefers(v, how) ==
    /\ verifying[v].pc = "fetching"
    /\ verifying' = [verifying EXCEPT ![v] = Rejected(@, how)]
    /\ nextRefresh' = verifying[v].now + maxAgeMs
    /\ UNCHANGED <<clock, registryVars, webhookVars, budgetVars,
                   keyCache, etag, maxAgeMs, jwks>>

\* The fetch fails: no response, or a response that is neither ok nor 304.
FetchFails(v, how) ==
    /\ verifying[v].pc = "fetching"
    /\ verifying' = [verifying EXCEPT ![v] = Rejected(@, how)]
    /\ UNCHANGED <<clock, registryVars, webhookVars, budgetVars,
                   keyCache, etag, nextRefresh, maxAgeMs, jwks>>

\* refresh on a 304 Not Modified response: the endpoint served doc, whose
\* validator is the one sent.
NotModifiedWith(v, doc) ==
    LET vd == verifying[v]
        bumped == BumpKeyExpiry(keyCache, vd.now + maxAgeMs)
    IN  /\ vd.sentEtag # "" /\ vd.sentEtag = doc.etag
        /\ nextRefresh' = vd.now + maxAgeMs
        /\ keyCache' = bumped
        /\ verifying' = [verifying EXCEPT ![v] =
              LookUpAgain([vd EXCEPT !.served = ServedKids(doc)], bumped, clock * MsPerSecond)]
        /\ UNCHANGED <<clock, registryVars, webhookVars, budgetVars, etag, maxAgeMs, jwks>>

\* 304 Not Modified: the endpoint still serves the document of the validator sent.
NotModified(v) == verifying[v].pc = "fetching" /\ NotModifiedWith(v, jwks)

\* refresh on a 200 response whose payload has no keys array.
InvalidPayloadWith(v, doc) ==
    LET vd == verifying[v]
    IN  /\ ~(vd.sentEtag # "" /\ vd.sentEtag = doc.etag)
        /\ doc.payload # "keys"
        /\ verifying' = [verifying EXCEPT ![v] = Rejected(vd, "jwks_invalid")]
        /\ UNCHANGED <<clock, registryVars, webhookVars, budgetVars,
                       keyCache, etag, nextRefresh, maxAgeMs, jwks>>

\* 200 with a payload that has no keys array.
InvalidPayload(v) == verifying[v].pc = "fetching" /\ InvalidPayloadWith(v, jwks)

\* refresh on a 200 response with a key set: max-age, nextRefresh and etag are
\* taken from the response, the supported keys are imported, and get looks
\* the key up again.
RefreshedWith(v, doc) ==
    LET vd == verifying[v]
        parsedMaxAge == ParseMaxAge(doc.cacheControl)
        age == (IF parsedMaxAge = Undefined THEN DEFAULT_CACHE_TTL_MS \div MsPerSecond
                ELSE parsedMaxAge) * MsPerSecond
        imported == Imported(keyCache, doc.keys, vd.now + age)
        importedKeys == Cardinality({k \in doc.keys : Supported(k)})
    IN  /\ ~(vd.sentEtag # "" /\ vd.sentEtag = doc.etag)
        /\ doc.payload = "keys"
        /\ maxAgeMs' = age
        /\ nextRefresh' = vd.now + age
        /\ etag' = doc.etag
        /\ keyCache' = imported
        /\ verifying' = [verifying EXCEPT ![v] =
              IF imported = {} /\ importedKeys = 0 THEN Rejected(vd, "jwks_empty")
              ELSE LookUpAgain([vd EXCEPT !.served = ServedKids(doc)], imported,
                               clock * MsPerSecond)]
        /\ UNCHANGED <<clock, registryVars, webhookVars, budgetVars, jwks>>

\* 200 with a key set, answered and handled at once.
Refreshed(v) == verifying[v].pc = "fetching" /\ RefreshedWith(v, jwks)

\* verify has returned or thrown; the slot takes the next request.
ReturnVerify(v) ==
    /\ verifying[v].pc = "done"
    /\ verifying' = [verifying EXCEPT ![v] = IdleVerify]
    /\ UNCHANGED <<clock, registryVars, webhookVars, budgetVars,
                   keyCache, etag, nextRefresh, maxAgeMs, jwks>>

\* The endpoint's owner publishes another document.
Publish(doc) ==
    /\ jwks # doc
    /\ jwks' = doc
    /\ UNCHANGED <<clock, registryVars, webhookVars, budgetVars,
                   keyCache, etag, nextRefresh, maxAgeMs, verifying>>

TickCache ==
    /\ clock < MaxCacheTicks * CacheTickSeconds
    /\ clock' = clock + CacheTickSeconds
    /\ UNCHANGED <<registryVars, webhookVars, budgetVars, cacheVars>>

InitVerifier ==
    /\ clock = 0
    /\ config \in {o \in [toleranceSeconds : ToleranceInputs, replayTtlSeconds : ReplayTtlInputs] :
                      Constructed(o)}
    /\ deliveries = {DeliveryItem("d1", config.replayTtlSeconds, 0)}
    /\ handlers = <<>> /\ marked = <<>>
    /\ keyCache = {} /\ etag = "" /\ nextRefresh = 0 /\ maxAgeMs = DEFAULT_CACHE_TTL_MS
    /\ jwks \in Documents
    /\ verifying = [v \in Verifiers |-> IdleVerify]
    /\ NoRegistry /\ NoBudget

NextVerifier ==
    \/ \E v \in Verifiers, req \in VerifierRequests : Verify(v, req)
    \/ \E v \in Verifiers, how \in {"jwks_unreachable", "jwks_http_error"} : FetchFails(v, how)
    \/ \E v \in Verifiers : NotModified(v)
    \/ \E v \in Verifiers : InvalidPayload(v)
    \/ \E v \in Verifiers : Refreshed(v)
    \/ \E v \in Verifiers : ReturnVerify(v)
    \/ \E doc \in Documents : Publish(doc)
    \/ TickCache

SpecVerifier == InitVerifier /\ [][NextVerifier]_vars

\* ---------------------------------------- two verify calls on one key cache

\* The verify calls that share the verifier's key cache.
Refreshers == {"v1", "v2"}

\* The time the pair is followed for, in ticks of the cache clock.
MaxPairTicks == 1

\* The documents the endpoint serves to the pair: both keys, one key, and a
\* payload without a keys array.
PairDocuments == {d \in Documents : d.etag \in {"v1", "v2", "v4"}}

\* Correctly signed requests, one for each key identifier.
PairRequests ==
    {q \in VerifierRequests : q.deliveryId = "d2" /\ q.signature = "valid" /\ q.keyid \in Kids}

\* The endpoint answers the fetch with the document it serves at that moment;
\* refresh handles the response when the awaited fetch resumes.
Serve(v) ==
    /\ verifying[v].pc = "fetching"
    /\ verifying' = [w \in Refreshers |->
          IF w = v
          THEN [verifying[v] EXCEPT !.pc = "received", !.response = jwks,
                    !.later = \E u \in Refreshers \ {v} : verifying[u].response # NoResponse]
          ELSE [verifying[w] EXCEPT !.later = FALSE]]
    /\ UNCHANGED <<clock, registryVars, webhookVars, budgetVars,
                   keyCache, etag, nextRefresh, maxAgeMs, jwks>>

ReceiveNotModified(v) == verifying[v].pc = "received" /\ NotModifiedWith(v, verifying[v].response)

ReceiveInvalidPayload(v) ==
    verifying[v].pc = "received" /\ InvalidPayloadWith(v, verifying[v].response)

ReceiveRefreshed(v) == verifying[v].pc = "received" /\ RefreshedWith(v, verifying[v].response)

TickPair ==
    /\ clock < MaxPairTicks * CacheTickSeconds
    /\ clock' = clock + CacheTickSeconds
    /\ UNCHANGED <<registryVars, webhookVars, budgetVars, cacheVars>>

InitRefreshPair ==
    /\ clock = 0
    /\ config = [toleranceSeconds |-> 7200, replayTtlSeconds |-> 3600]
    /\ deliveries = {}
    /\ handlers = <<>> /\ marked = <<>>
    /\ keyCache = {} /\ etag = "" /\ nextRefresh = 0 /\ maxAgeMs = DEFAULT_CACHE_TTL_MS
    /\ jwks \in PairDocuments
    /\ verifying = [v \in Refreshers |-> IdleVerify]
    /\ NoRegistry /\ NoBudget

NextRefreshPair ==
    \/ \E v \in Refreshers, req \in PairRequests : Verify(v, req)
    \/ \E v \in Refreshers : FetchFails(v, "jwks_unreachable")
    \/ \E v \in Refreshers : Serve(v)
    \/ \E v \in Refreshers : ReceiveNotModified(v)
    \/ \E v \in Refreshers : ReceiveInvalidPayload(v)
    \/ \E v \in Refreshers : ReceiveRefreshed(v)
    \/ \E v \in Refreshers : ReturnVerify(v)
    \/ \E doc \in PairDocuments : Publish(doc)
    \/ TickPair

SpecRefreshPair == InitRefreshPair /\ [][NextRefreshPair]_vars

\* ------------------------------------------------- claims: the verifier

\* The header checks in the order the claim gives them, and what makes a
\* request fail each.
CheckOrder ==
    <<"missing_content_digest", "invalid_content_digest", "missing_timestamp",
      "timestamp_out_of_window", "missing_delivery_id", "missing_signature">>

Fails(reason, req, nowSeconds) ==
    CASE reason = "missing_content_digest" -> req.contentDigest = NoHeader
      [] reason = "invalid_content_digest" -> req.contentDigest # ComputeContentDigest(req.body)
      [] reason = "missing_timestamp" -> req.timestamp.kind # "number"
      [] reason = "timestamp_out_of_window" ->
            /\ req.timestamp.kind = "number"
            /\ \/ nowSeconds - req.timestamp.seconds > config.toleranceSeconds
               \/ req.timestamp.seconds - nowSeconds > config.toleranceSeconds
      [] reason = "missing_delivery_id" -> req.deliveryId = ""
      [] reason = "missing_signature" -> ~req.signatureHeaders

Failing(req, nowSeconds) == {i \in DOMAIN CheckOrder : Fails(CheckOrder[i], req, nowSeconds)}

FirstFailing(req, nowSeconds) ==
    CheckOrder[CHOOSE i \in Failing(req, nowSeconds) : \A j \in Failing(req, nowSeconds) : i <= j]

\* C14: a request that fails a header check is rejected with the reason of the
\* first check it fails, in the order digest present, digest matches, timestamp
\* present and numeric, timestamp within tolerance, delivery id present,
\* signature headers present; so a stale request is rejected with
\* timestamp_out_of_window whatever its signature.
C14_FirstFailingHeaderCheckDecides ==
    \A v \in Verifiers :
        LET vd == verifying[v]
            nowSeconds == vd.now \div MsPerSecond
        IN  vd.pc # "idle" =>
              IF Failing(vd.req, nowSeconds) # {}
              THEN vd.pc = "done" /\ vd.reason = FirstFailing(vd.req, nowSeconds)
              ELSE vd.reason \notin HeaderReasons

\* A stale request that also lacks its delivery id and whose signature does not
\* verify: rejected for its timestamp.
C14_Witness ==
    \E v \in Verifiers :
        /\ verifying[v].reason = "timestamp_out_of_window"
        /\ verifying[v].req.deliveryId = ""
        /\ verifying[v].req.signature = "tampered"

HeaderRejectionTouchesNothing ==
    \A v \in Verifiers :
        LET vd == verifying[v]
        IN  vd.pc # "idle" =>
              /\ Failing(vd.req, vd.now \div MsPerSecond) # {} =>
                    /\ vd.pc = "done"
                    /\ vd.signatures = 0 /\ vd.lookups = 0
                    /\ vd.fetches = 0 /\ vd.storeReads = 0
              /\ vd.storeReads # 0 =>
                    /\ vd.signatures = 1 /\ vd.lookups = 1
                    /\ vd.req.signature = "valid" /\ vd.reason = "ok"

\* A step that ends a verify with a header rejection changes neither the key
\* cache nor the delivery store.
HeaderRejectionStep ==
    \A v \in Verifiers :
        (verifying[v].pc = "idle" /\ verifying'[v].reason \in HeaderReasons) =>
            /\ <<keyCache, etag, nextRefresh, maxAgeMs>>' = <<keyCache, etag, nextRefresh, maxAgeMs>>
            /\ deliveries' = deliveries

\* C15: a request rejected by a header check (a tampered body among them)
\* causes no signature verification, no key-set fetch, no change of the key
\* cache and no access to the delivery store; the store is read only after the
\* signature has been verified.
C15_HeaderRejectionIsSideEffectFree ==
    []HeaderRejectionTouchesNothing /\ [][HeaderRejectionStep]_vars

\* A tampered body arrives while the cache holds no key: rejected for its
\* digest, and nothing was fetched.
C15_Witness ==
    \E v \in Verifiers :
        /\ verifying[v].reason = "invalid_content_digest"
        /\ verifying[v].req.signature = "valid"
        /\ verifying[v].fetches = 0 /\ verifying[v].signatures = 0
        /\ keyCache = {} /\ nextRefresh = 0

\* The rejections the claim counts as malformed input: a header is missing or
\* cannot be parsed.
MalformedInputReasons ==
    {"missing_content_digest", "missing_timestamp", "missing_delivery_id", "missing_signature"}

\* C16 as claimed: a rejection carries status 400 when a header is missing or
\* unparseable and 401 for every authentication failure: digest mismatch, stale
\* timestamp, bad signature, unknown key.
C16_StatusFollowsFailureKind ==
    \A v \in Verifiers :
        LET vd == verifying[v]
        IN  (vd.pc = "done" /\ vd.reason # "ok") =>
              vd.statusCode = IF vd.reason \in MalformedInputReasons THEN 400 ELSE 401

\* The reasons of a failed key-set refresh.
JwksReasons == {"jwks_unreachable", "jwks_http_error", "jwks_invalid", "jwks_empty"}

\* C17 as claimed: whatever makes signature verification fail (a malformed
\* signature, one that does not verify, an unknown key, an altered field, an old
\* created parameter, a false or null result), the reason given to the caller is
\* invalid_signature.
C17_SignatureFailuresShareOneReason ==
    \A v \in Verifiers :
        LET vd == verifying[v]
        IN  (vd.pc = "done" /\ vd.signatures = 1 /\ vd.reason \notin JwksReasons \cup {"ok"})
                => vd.reason = "invalid_signature"

\* C18 as claimed: a request whose signature names no key identifier, or one
\* that is absent from the key set, is rejected, also when the call refreshed
\* the cache from the endpoint: verify returns no outcome for it and does not
\* read the delivery store.
C18_UnknownKeyIsRejected ==
    \A v \in Verifiers :
        LET vd == verifying[v]
        IN  (vd.pc = "done" /\ (vd.reason = "ok" \/ vd.storeReads # 0)) =>
              /\ vd.req.keyid # ""
              /\ vd.fetches = 1 => vd.req.keyid \in vd.served

\* A step of verify in which keyLookup calls get, and the key identifier asked for.
GetCalled(v) == verifying[v].pc = "idle" /\ verifying'[v].lookups = 1

Hit(v) == Fresh(keyCache, verifying'[v].req.keyid, clock * MsPerSecond)

\* The lookup get ends with: the key's verdict when the entry is cached and
\* not expired, the unknown-key rejection otherwise.
LooksUpAgain(v) ==
    LET vd == verifying'[v]
    IN  (verifying[v].pc # "done" /\ vd.pc = "done" /\ vd.lookups = 1
            /\ vd.reason \notin JwksReasons) =>
            vd.reason = IF Fresh(keyCache', vd.req.keyid, clock * MsPerSecond)
                        THEN SignatureReason(LibraryResult(vd.req.signature))
                        ELSE "invalid_signature"

\* C19 as claimed: get fetches nothing on a non-expired hit, and fetches the
\* key-set document exactly once, with the validator it knows, whenever the
\* key has no entry or an expired one.
C19_OneFetchOnEveryMiss ==
    [][\A v \in Verifiers :
          GetCalled(v) =>
              IF Hit(v) THEN verifying'[v].fetches = 0 /\ verifying'[v].pc = "done"
              ELSE /\ verifying'[v].fetches = 1 /\ verifying'[v].pc = "fetching"
                   /\ verifying'[v].sentEtag = etag]_vars

\* C19 amended: get fetches nothing on a non-expired hit; on a miss or an
\* expired entry it fetches exactly once, with the validator it knows, when
\* the next-allowed-refresh instant has been reached, and fetches nothing and
\* answers null while that instant lies ahead; a refresh that did not fail is
\* followed by one more lookup and no further fetch.
C19_OneFetchOnMissOnceRefreshIsDue ==
    [][\A v \in Verifiers :
          /\ GetCalled(v) =>
                IF Hit(v) \/ nextRefresh > clock * MsPerSecond
                THEN verifying'[v].fetches = 0 /\ verifying'[v].pc = "done"
                ELSE /\ verifying'[v].fetches = 1 /\ verifying'[v].pc = "fetching"
                     /\ verifying'[v].sentEtag = etag
          /\ verifying[v].pc = "fetching" => verifying'[v].fetches = 1
          /\ LooksUpAgain(v)]_vars

\* A correctly signed request was turned away for its key without a fetch:
\* the key had no live entry and the next refresh was not yet due.
C19_Witness ==
    \E v \in Verifiers :
        LET vd == verifying[v]
        IN  /\ vd.pc = "done" /\ vd.lookups = 1 /\ vd.fetches = 0
            /\ vd.req.signature = "valid" /\ vd.reason = "invalid_signature"
            /\ nextRefresh > vd.now /\ etag # ""

\* The step in which a refresh is answered 304 Not Modified.
NotModifiedStep(v) ==
    /\ verifying[v].pc = "fetching" /\ verifying'[v].pc = "done"
    /\ verifying[v].sentEtag # "" /\ verifying[v].sentEtag = jwks.etag
    /\ verifying'[v].reason \notin JwksReasons

\* C20 as claimed: a 304 removes no entry, sets every entry's expiry to
\* now + max-age, and leaves every cached key resolvable at once, by the
\* lookup that follows and without another fetch.
C20_NotModifiedExtendsEveryEntry ==
    [][\A v \in Verifiers :
          NotModifiedStep(v) =>
              /\ {c.kid : c \in keyCache'} = {c.kid : c \in keyCache}
              /\ \A c \in keyCache' : c.expiresAt = verifying[v].now + maxAgeMs
              /\ verifying'[v].fetches = 1
              /\ clock * MsPerSecond = verifying[v].now =>
                    \A c \in keyCache : Fresh(keyCache', c.kid, clock * MsPerSecond)]_vars

\* The reasons of a fetch that failed in transport or with an HTTP error status.
FetchFailureReasons == {"jwks_unreachable", "jwks_http_error"}

FetchFailureStep(v) ==
    /\ verifying[v].pc = "fetching" /\ verifying'[v].pc = "done"
    /\ verifying'[v].reason \in FetchFailureReasons

\* After the failure the refresh is still due: a get for a key without a live
\* entry fetches again.
FailedRefreshStaysDue ==
    \A v \in Verifiers :
        LET vd == verifying[v]
        IN  (vd.pc = "done" /\ vd.reason \in FetchFailureReasons) =>
                /\ vd.storeReads = 0
                /\ nextRefresh <= clock * MsPerSecond
                /\ ~Fresh(keyCache, vd.req.keyid, vd.now)

\* C21: a key-set fetch that fails in transport or with an HTTP error status
\* fails the verification and leaves the cached keys, their expiries, the
\* validator, the next-refresh instant and the max-age as they were, so the
\* refresh stays due for the next get of a missing or expired key.
C21_FailedFetchLeavesCacheAsItWas ==
    /\ []FailedRefreshStaysDue
    /\ [][\A v \in Verifiers :
             FetchFailureStep(v) => UNCHANGED <<keyCache, etag, nextRefresh, maxAgeMs>>]_vars

\* A fetch failed while the cache held keys and a validator from an earlier refresh.
C21_Witness ==
    \E v \in Verifiers :
        /\ verifying[v].pc = "done" /\ verifying[v].reason = "jwks_http_error"
        /\ verifying[v].sentEtag # "" /\ keyCache # {} /\ nextRefresh > 0

\* The step in which a refresh ends on a response that is not a 304.
ResponseStep(v) ==
    /\ verifying[v].pc = "fetching" /\ verifying'[v].pc = "done"
    /\ ~(verifying[v].sentEtag # "" /\ verifying[v].sentEtag = jwks.etag)

\* C22 as claimed: a refresh that fails (unreachable, HTTP error, invalid
\* payload, empty key set) rejects with a jwks_ reason of its own, and leaves
\* the refresh due, so that no later get answers not-found without fetching.
C22_FailedRefreshIsNeverUnknownKey ==
    /\ [](\A v \in Verifiers :
            (verifying[v].pc = "done" /\ verifying[v].reason \in JwksReasons) =>
                nextRefresh <= clock * MsPerSecond)
    /\ [][\A v \in Verifiers :
             (/\ ResponseStep(v)
              /\ \/ jwks.payload # "keys"
                 \/ ServedKids(jwks) = {} /\ keyCache = {}) =>
                 verifying'[v].reason \in JwksReasons]_vars

\* The identifiers the cache map holds, expired or not.
CachedKids(cache) == {c.kid : c \in cache}

\* C23 as claimed: after a 200 refresh the cache map holds exactly the
\* supported keys of that response, so get returns no key that the most
\* recent 200 response did not contain.
C23_MapIsRebuiltOnSuccess ==
    [][\A v \in Verifiers :
          (ResponseStep(v) /\ jwks.payload = "keys"
             /\ verifying'[v].reason \notin JwksReasons) =>
              CachedKids(keyCache') = ServedKids(jwks)]_vars

\* C24 as claimed: a 200 response from which no supported key results makes
\* the refresh fail with jwks_empty, whatever the cache held before.
C24_NoSupportedKeyIsEmpty ==
    [][\A v \in Verifiers :
          (ResponseStep(v) /\ verifying'[v].reason \notin FetchFailureReasons
             /\ jwks.payload = "keys" /\ ServedKids(jwks) = {}) =>
              verifying'[v].reason = "jwks_empty"]_vars

\* The max-age refresh takes from a response, in milliseconds.
ResponseMaxAgeMs(doc) ==
    LET parsedMaxAge == ParseMaxAge(doc.cacheControl)
    IN  (IF parsedMaxAge = Undefined THEN DEFAULT_CACHE_TTL_MS \div MsPerSecond
         ELSE parsedMaxAge) * MsPerSecond

\* C25 as claimed: after a 200 refresh the max-age is the response's, or the
\* default when the response has none, and is positive; the get that
\* triggered the refresh returns a key the refresh imported.
C25_MaxAgeIsPositive ==
    [][\A v \in Verifiers :
          (ResponseStep(v) /\ jwks.payload = "keys"
             /\ verifying'[v].reason \notin JwksReasons) =>
              /\ maxAgeMs' = ResponseMaxAgeMs(jwks)
              /\ maxAgeMs' > 0
              /\ (verifying[v].req.keyid \in ServedKids(jwks)
                    /\ clock * MsPerSecond = verifying[v].now) =>
                     Fresh(keyCache', verifying[v].req.keyid, clock * MsPerSecond)]_vars

\* ------------------------------------------------ claims: the handler

\* C26: when checkAndRegister answers false for a verified webhook that is no
\* duplicate, the handler answers 200 without calling the orchestrator or
\* markDelivered; the orchestrator is called only after checkAndRegister
\* answered true.
C26_ConflictStopsProcessing ==
    \A h \in Handlers :
        LET hd == handlers[h]
        IN  /\ hd.registered = "false" =>
                  /\ hd.pc = "done" /\ hd.statusCode = 200
                  /\ hd.orchestrated = "none" /\ hd.stored = "none"
                  /\ ~hd.duplicate
            /\ (hd.orchestrated # "none" \/ hd.pc = "orchestrate") => hd.registered = "true"

\* A conflict was answered while the other handler went on to the orchestrator.
C26_Witness ==
    \E h, g \in Handlers :
        /\ handlers[h].registered = "false" /\ handlers[h].pc = "done"
        /\ handlers[g].orchestrated = "ok"

\* ------------------------------------------- claims: the registry's outcomes

\* C27 as claimed: no checkAndRegister call ends in an error; a channel owned
\* by another session, or lost between the read and the refresh, ends the
\* call with false.
C27_ConflictIsNeverAnError ==
    \A p \in Calls : calls[p].pc = "done" => calls[p].result \in {"true", "false"}

\* A call is at a store operation.
AtStore(p) == calls[p].pc \in {"put", "get", "update"}

\* A call begins with nothing to protect.
BeginsEmpty(p) ==
    /\ calls[p].pc = "idle" /\ calls'[p].pc # "idle"
    /\ calls'[p].ids = <<>> \/ calls'[p].sessionId = ""

\* C28: checkAndRegister with no channel identifier other than empty ones, or
\* with no session identifier, returns true without a store operation and
\* leaves the binding table as it was.
C28_NothingToProtectIsTrue ==
    /\ [](\A p \in Calls :
             AtStore(p) => /\ calls[p].sessionId # ""
                           /\ calls[p].ids # <<>> /\ "" \notin Elems(calls[p].ids))
    /\ [][\A p \in Calls :
             BeginsEmpty(p) => /\ calls'[p].pc = "done" /\ calls'[p].result = "true"
                               /\ bindings' = bindings]_vars

\* A call without a session returned true while the other call, with a
\* session, was at the store, and the table held a binding.
C28_Witness ==
    \E p, q \in Calls :
        /\ calls[p].pc = "done" /\ calls[p].result = "true"
        /\ calls[p].sessionId = "" /\ calls[p].ids # <<>>
        /\ AtStore(q) /\ bindings # {}

\* ------------------------------------------- claims: the capped AI client

\* C29: with forceMock off and maxPerHour L > 0 the real client is called only
\* after tryConsume returned true and the mock client after it returned
\* false, so the real calls attributed to one UTC hour never exceed L; with
\* forceMock on neither the limiter nor the real client is called.
C29_RealCallsWithinHourlyCap ==
    /\ (~capped.forceMock /\ limit > 0) =>
          /\ \A g \in Generators :
                LET gen == capped.calls[g]
                IN  /\ (gen.pc = "real" \/ gen.client = "real") => gen.allowed = "true"
                    /\ gen.allowed = "false" => gen.pc = "mock" \/ gen.client = "mock"
                    /\ gen.allowed = "error" => gen.client = "error"
          /\ \A k \in HourKeys : capped.real[k] <= limit
    /\ capped.forceMock =>
          /\ ~capped.limiterCalled
          /\ \A k \in HourKeys : capped.real[k] = 0
          /\ \A g \in Generators : capped.calls[g].pc \in {"idle", "mock", "done"}

\* One hour's budget of two is spent on real calls and a call in flight is
\* served by the mock client because the limiter refused it.
C29_Witness ==
    /\ ~capped.forceMock /\ limit = 2
    /\ \E k \in HourKeys : capped.real[k] = 2
    /\ \E g \in Generators : capped.calls[g].allowed = "false" /\ capped.calls[g].client = "mock"
    /\ capped.lastCallState = "mock_limit"

\* A handler is at, or past, a call that follows verify.
Downstream(hd) ==
    \/ hd.pc \in {"register", "orchestrate", "markDelivered"}
    \/ hd.registered # "none" \/ hd.orchestrated # "none" \/ hd.stored # "none"

\* C30: the handler calls the registry, the orchestrator and markDelivered
\* only after verify returned with duplicate = false; an error raised inside
\* verify (a header guard, a failed key-set fetch, a signature failure, a
\* failed read of the delivery store) is answered with a status other than
\* 200 and no downstream call.
C30_VerificationFailsClosed ==
    \A h \in Handlers :
        LET hd == handlers[h]
        IN  /\ Downstream(hd) => hd.verify = "returned" /\ ~hd.duplicate
            /\ hd.verify = "threw" =>
                  /\ hd.pc = "done" /\ hd.statusCode \in {400, DefaultStatusCode}
                  /\ ~Downstream(hd)
            /\ (hd.pc = "done" /\ hd.statusCode = 200) => hd.verify = "returned"

\* One handler was rejected for a failed read of the delivery store, the
\* other for an unreachable key set.
C30_Witness ==
    \E h, g \in Handlers :
        /\ handlers[h].pc = "done" /\ handlers[h].reason = "webhook_verification_failed"
        /\ handlers[h].statusCode = DefaultStatusCode
        /\ handlers[g].pc = "done" /\ handlers[g].reason = "jwks_unreachable"

\* ------------------------------------------- claims: concurrent refreshes

\* A slot holds a 200 response with a key set that refresh has handled.
Handled(vd) ==
    /\ vd.pc = "done" /\ vd.fetches = 1 /\ vd.response.payload = "keys"
    /\ ~(vd.sentEtag # "" /\ vd.sentEtag = vd.response.etag)
    /\ vd.reason \notin JwksReasons

\* C31 as claimed: when two get calls both miss and both fetch, the cache is
\* left with the validator and the max-age of the response that was issued
\* later, in whichever order the two responses are handled.
C31_LaterIssuedResponseWins ==
    [][\A v, w \in Refreshers :
          (/\ verifying[v].pc = "received" /\ verifying'[v].pc = "done"
           /\ Handled(verifying'[v])
           /\ Handled(verifying[w]) /\ verifying[w].later) =>
              /\ etag' = verifying[w].response.etag
              /\ maxAgeMs' = ResponseMaxAgeMs(verifying[w].response)]_vars

\* ------------------------------------------- claims: the registry's steps

\* The attempts made for the channel at hand are within the bound, and a
\* further conditional create is only due while fewer than MaxAttempts were made.
AttemptsBounded ==
    \A p \in Calls :
        /\ calls[p].attempts <= MaxAttempts
        /\ calls[p].pc = "put" => calls[p].attempts < MaxAttempts
        /\ calls[p].pc \in {"get", "update"} => calls[p].attempts >= 1

\* Each attempt is one conditional create and at most one consistent read;
\* the conditional refresh ends the work on the channel.
OneCommandPerStep ==
    \A p \in Calls :
        LET c == calls[p]
            d == calls'[p]
            stepped == d.pc # c.pc \/ d.i # c.i \/ d.attempts # c.attempts
            sameChannel == d.pc \in {"put", "get", "update"} /\ d.i = c.i
        IN  /\ (c.pc = "put" /\ stepped /\ sameChannel) =>
                  d.pc = "get" /\ d.attempts = c.attempts + 1
            /\ (c.pc = "get" /\ stepped /\ sameChannel) =>
                  d.pc \in {"put", "update"} /\ d.attempts = c.attempts
            /\ (c.pc = "update" /\ stepped) => ~sameChannel

\* C32: checkAndRegister terminates, and for each channel identifier it makes
\* at most MaxAttempts conditional creates, as many consistent reads at most,
\* and at most one conditional refresh, whatever the store holds and whatever
\* competing calls do.
C32_AtMostThreeAttemptsThenReturn ==
    /\ []AttemptsBounded
    /\ [][OneCommandPerStep]_vars
    /\ \A p \in Calls : AtStore(p) ~> calls[p].pc = "done"

\* A call has made its third conditional create for a channel.
C32_Witness ==
    \E p \in Calls : calls[p].pc = "get" /\ calls[p].attempts = MaxAttempts

\* What a step does to a binding: it leaves it alone, the store removes it
\* after its expiry, or a call of the owning session at its conditional
\* refresh sets lastSeenAt to the call's now and expiresAt to now + ttl.
OnlyOwnerRefreshes(it) ==
    \/ it \in bindings'
    \/ ItemsAt(bindings', it) = {} /\ it.expiresAt <= clock
    \/ \E p \in Calls :
          LET c == calls[p]
          IN  /\ c.pc = "update" /\ c.sessionId = it.sessionId
              /\ Key(c.ids[c.i]).pk = it.pk
              /\ ItemsAt(bindings', it) =
                    {[it EXCEPT !.lastSeenAt = c.nowSeconds, !.expiresAt = c.expiresAt]}
              /\ c.expiresAt - c.nowSeconds \in {TtlSeconds(h) : h \in TtlHoursInputs}

\* C33: a repeat claim by the owning session changes only lastSeenAt and
\* expiresAt of the binding (to now and now + ttl), sessionId and firstSeenAt
\* stay; a claim by another session changes no field of the binding.
C33_RefreshTouchesOnlyLastSeenAndExpiry ==
    [][\A it \in bindings : OnlyOwnerRefreshes(it)]_vars

\* A binding was refreshed by its owner an hour after it was made, and a call
\* of another session for the same channel has been refused since.
C33_Witness ==
    \E it \in bindings : \E q \in Calls :
        /\ it.lastSeenAt > it.firstSeenAt /\ it.expiresAt = it.lastSeenAt + SecondsPerHour
        /\ calls[q].pc = "done" /\ calls[q].result = "false"
        /\ calls[q].sessionId # it.sessionId /\ calls[q].sessionId # ""
        /\ it.pk[2] \in Elems(calls[q].ids)
        /\ bindings = {it}

\* ------------------------------- the orchestrator: Round Requested events

RoundHandlers == {"r1", "r2"}
RoundIndexes == {0}
QuestionIds == {"q1", "q2"}

\* The deliveries that carry a Round Requested event for session S1, and the
\* round each asks for (event.nextRoundIndex): both ask for round 0.
RoundDeliveries == {"e1", "e2"}
RoundOf(deliveryId) == 0

\* `options.ttlHours ?? 24`
DefaultTtlHours == 24
MaxRoundDays == 1

\* computeTtl: now + floor(ttlHours * 60 * 60)
ComputeTtl(now) == now + DefaultTtlHours * SecondsPerHour

QuestionItem(roundIndex, questionId, now) ==
    [sessionId |-> "S1", roundIndex |-> roundIndex, questionId |-> questionId,
     expiresAt |-> ComputeTtl(now)]

QuestionsAt(table, roundIndex) == {it \in table : it.roundIndex = roundIndex}

\* Mutant: the question is written whatever the table holds.
QuestionPutUnconditional(table, roundIndex) == TRUE

\* attribute_not_exists(sessionId) AND attribute_not_exists(roundIndex)
QuestionConditionHolds(table, roundIndex) == QuestionsAt(table, roundIndex) = {}

IdleRound ==
    [pc |-> "idle", deliveryId |-> "e1", roundIndex |-> 0, questionId |-> "none",
     put |-> "none", status |-> 0]

\* The handler takes a delivery: a delivery already marked handled is
\* acknowledged as a replay, any other reaches handleRoundRequested.
ReceiveRound(h, deliveryId) ==
    /\ rounds.calls[h].pc = "idle"
    /\ rounds' = [rounds EXCEPT !.calls[h] =
          IF deliveryId \in rounds.handled
          THEN [IdleRound EXCEPT !.pc = "done", !.deliveryId = deliveryId,
                                 !.roundIndex = RoundOf(deliveryId), !.status = 200]
          ELSE [IdleRound EXCEPT !.pc = "get", !.deliveryId = deliveryId,
                                 !.roundIndex = RoundOf(deliveryId)]]
    /\ UNCHANGED <<clock, registryVars, webhookVars, cacheVars, limit, budget, grants,
                   lastConsume, capped>>

\* repo.get, a read that is not consistent: it may miss a question written a
\* moment ago. `if (existing) return;` leaves the orchestrator.
GetQuestion(h, read) ==
    LET c == rounds.calls[h]
        existing == read = "current" /\ QuestionsAt(rounds.questions, c.roundIndex) # {}
    IN  /\ c.pc = "get"
        /\ rounds' = [rounds EXCEPT !.calls[h].pc = IF existing THEN "mark" ELSE "generate"]
        /\ UNCHANGED <<clock, registryVars, webhookVars, cacheVars, limit, budget, grants,
                       lastConsume, capped>>

\* ai.generateQuestion: a question with its own questionId, or an error that
\* leaves the handler with 500.
GenerateRoundQuestion(h, questionId, outcome) ==
    LET c == rounds.calls[h]
    IN  /\ c.pc = "generate"
        /\ rounds' = [rounds EXCEPT !.calls[h] =
              IF outcome = "throws"
              THEN [c EXCEPT !.pc = "done", !.status = 500]
              ELSE [c EXCEPT !.pc = "put", !.questionId = questionId]]
        /\ UNCHANGED <<clock, registryVars, webhookVars, cacheVars, limit, budget, grants,
                       lastConsume, capped>>

\* repo.put under its condition: QuestionAlreadyExistsError leaves the
\* orchestrator without startRound.
PutQuestion(h) ==
    LET c == rounds.calls[h]
    IN  /\ c.pc = "put"
        /\ rounds' =
              IF QuestionConditionHolds(rounds.questions, c.roundIndex)
              THEN [rounds EXCEPT
                      !.questions = (@ \ QuestionsAt(@, c.roundIndex))
                                    \cup {QuestionItem(c.roundIndex, c.questionId, clock)},
                      !.calls[h].pc = "start", !.calls[h].put = "stored"]
              ELSE [rounds EXCEPT !.calls[h].pc = "mark", !.calls[h].put = "rejected"]
        /\ UNCHANGED <<clock, registryVars, webhookVars, cacheVars, limit, budget, grants,
                       lastConsume, capped>>

\* myos.startRound with the generated questionId; its error is not caught by
\* the orchestrator and leaves the handler with 500.
StartRound(h, outcome) ==
    LET c == rounds.calls[h]
    IN  /\ c.pc = "start"
        /\ rounds' =
              IF outcome = "throws"
              THEN [rounds EXCEPT !.calls[h].pc = "done", !.calls[h].status = 500]
              ELSE [rounds EXCEPT
                      !.calls[h].pc = "mark",
                      !.started[c.roundIndex] = IF @ < 2 THEN @ + 1 ELSE @]
        /\ UNCHANGED <<clock, registryVars, webhookVars, cacheVars, limit, budget, grants,
                       lastConsume, capped>>

\* onDocumentUpdated has returned: markDelivered, then 200.
MarkRound(h) ==
    LET c == rounds.calls[h]
    IN  /\ c.pc = "mark"
        /\ rounds' = [rounds EXCEPT !.handled = @ \cup {c.deliveryId},
                                    !.calls[h].pc = "done", !.calls[h].status = 200]
        /\ UNCHANGED <<clock, registryVars, webhookVars, cacheVars, limit, budget, grants,
                       lastConsume, capped>>

\* The handler has answered; the slot takes the next delivery.
ReturnRound(h) ==
    /\ rounds.calls[h].pc = "done"
    /\ rounds' = [rounds EXCEPT !.calls[h] = IdleRound]
    /\ UNCHANGED <<clock, registryVars, webhookVars, cacheVars, limit, budget, grants,
                   lastConsume, capped>>

TickRounds ==
    /\ clock < MaxRoundDays * SecondsPerDay
    /\ clock' = clock + SecondsPerDay
    /\ UNCHANGED <<registryVars, webhookVars, budgetVars, cacheVars>>

\* The questions table deletes an item whose expiresAt has passed.
ExpireQuestion(it) ==
    /\ it \in rounds.questions
    /\ it.expiresAt <= clock
    /\ rounds' = [rounds EXCEPT !.questions = @ \ {it}, !.removed[it.roundIndex] = TRUE]
    /\ UNCHANGED <<clock, registryVars, webhookVars, cacheVars, limit, budget, grants,
                   lastConsume, capped>>

InitRounds ==
    /\ clock = 0
    /\ rounds = [questions |-> {},
                 calls |-> [h \in RoundHandlers |-> IdleRound],
                 handled |-> {},
                 started |-> [r \in RoundIndexes |-> 0],
                 removed |-> [r \in RoundIndexes |-> FALSE]]
    /\ limit = 0 /\ budget = {} /\ grants = <<>> /\ lastConsume = <<>> /\ capped = <<>>
    /\ NoRegistry /\ NoWebhook /\ NoCache

NextRounds ==
    \/ \E h \in RoundHandlers, d \in RoundDeliveries : ReceiveRound(h, d)
    \/ \E h \in RoundHandlers, read \in {"current", "stale"} : GetQuestion(h, read)
    \/ \E h \in RoundHandlers, q \in QuestionIds, outcome \in {"generated", "throws"} :
          GenerateRoundQuestion(h, q, outcome)
    \/ \E h \in RoundHandlers : PutQuestion(h)
    \/ \E h \in RoundHandlers, outcome \in {"ok", "throws"} : StartRound(h, outcome)
    \/ \E h \in RoundHandlers : MarkRound(h)
    \/ \E h \in RoundHandlers : ReturnRound(h)
    \/ TickRounds
    \/ \E it \in rounds.questions : ExpireQuestion(it)

SpecRounds == InitRounds /\ [][NextRounds]_vars

\* ------------------------------------------------ claims: the orchestrator

\* C34 as stated: startRound is issued at most once for a round, whatever
\* happens to the stored question.
C34_StartRoundAtMostOnce ==
    \A r \in RoundIndexes : rounds.started[r] <= 1

\* What one step of the handlers does: startRound is called only by the
\* handler whose conditional put stored the question, with the stored
\* questionId; a handler that found a question or whose put was rejected goes
\* on to markDelivered; a stored question is never overwritten.
OnlyTheWriterStarts ==
    /\ \A h \in RoundHandlers :
          LET c == rounds.calls[h]
              d == rounds'.calls[h]
          IN  /\ (c.pc = "start" /\ d.pc = "mark") =>
                    /\ c.put = "stored"
                    /\ \/ \E it \in QuestionsAt(rounds.questions, c.roundIndex) :
                             it.questionId = c.questionId
                       \/ rounds.removed[c.roundIndex]
              /\ (c.pc = "get" /\ d.pc # "generate") => d.pc \in {"get", "mark"}
              /\ (c.pc = "put" /\ d.put = "rejected") =>
                    d.pc = "mark" /\ rounds'.started = rounds.started
              /\ (rounds'.started # rounds.started /\ d # c) =>
                    c.pc = "start" /\ c.put = "stored"
    /\ \A it \in rounds.questions : it \in rounds'.questions \/ it.expiresAt <= clock

\* C34: for each round, while the question stored for it has not been removed
\* by its TTL, startRound is issued at most once under every interleaving of
\* concurrent and repeated Round Requested handlings: only the handler whose
\* conditional put succeeded calls it, with the stored questionId, and a
\* handler that finds a question or whose put is rejected neither calls it nor
\* overwrites the question.
C34_StartRoundOncePerStoredQuestion ==
    /\ [](\A r \in RoundIndexes : rounds.started[r] >= 2 => rounds.removed[r])
    /\ [][OnlyTheWriterStarts]_vars

\* Two handlers raced for round 0: one stored its question and started the
\* round, the other's put was rejected.
C34_Witness ==
    /\ rounds.started[0] = 1 /\ ~rounds.removed[0]
    /\ \E h, k \in RoundHandlers :
          /\ rounds.calls[h].put = "stored" /\ rounds.calls[h].pc = "mark"
          /\ rounds.calls[k].put = "rejected" /\ rounds.calls[k].roundIndex = 0
          /\ rounds.calls[h].roundIndex = 0
          /\ rounds.calls[h].questionId # rounds.calls[k].questionId

\* No Round Requested handling is in flight.
RoundsAtRest == \A h \in RoundHandlers : rounds.calls[h].pc = "idle"

\* C38: a Round Requested delivery that failed after its question was stored
\* (startRound raised) and is delivered again is not acknowledged and marked
\* handled without the round started: once the handlers are at rest, a
\* delivery marked handled whose round has a stored question has had
\* startRound issued for that round.
C38_RetryStartsTheRound ==
    RoundsAtRest =>
        \A d \in rounds.handled :
            QuestionsAt(rounds.questions, RoundOf(d)) # {} => rounds.started[RoundOf(d)] >= 1

\* ------------------------------------ claims: too few channel identifiers

\* C35: a verified webhook that is no duplicate and whose snapshot yields fewer
\* than three channel identifiers is answered 200, and the handler calls
\* neither checkAndRegister nor the orchestrator nor markDelivered.
C35_TooFewChannelsIsAcknowledgedOnly ==
    \A h \in Handlers :
        LET hd == handlers[h]
        IN  (hd.verify = "returned" /\ ~hd.duplicate /\ hd.body = "fewTimelines") =>
              /\ hd.pc = "done" /\ hd.statusCode = 200
              /\ hd.reason = "timeline_structure_invalid"
              /\ hd.registered = "none" /\ hd.orchestrated = "none" /\ hd.stored = "none"

\* Such a webhook was answered, and its delivery identifier is not recorded.
C35_Witness ==
    \E h \in Handlers :
        /\ handlers[h].verify = "returned" /\ ~handlers[h].duplicate
        /\ handlers[h].body = "fewTimelines" /\ handlers[h].statusCode = 200
        /\ ~HasSeenResult(deliveries, handlers[h].deliveryId)

\* ----------------------------------------- claims: refusal and first writer

\* The bindings in the table that a call wrote: created or refreshed by it.
WrittenBy(p) ==
    {it \in bindings :
        it.pk[2] \in calls[p].confirmed /\ it.sessionId = calls[p].sessionId}

\* C36 as claimed: a checkAndRegister call that returns false leaves the binding
\* table as it was before the call: no binding created or refreshed by the
\* call is in the table when it returns false.
C36_RefusalLeavesTableAsItWas ==
    \A p \in Calls :
        (calls[p].pc = "done" /\ calls[p].result = "false") => WrittenBy(p) = {}

\* C37 as claimed: when two calls of different sessions begin on the same set
\* of channels while every channel is free, at least one of them returns
\* true, in whichever order their store operations interleave.
C37_FirstWriterWins ==
    \A p, q \in Calls :
        ( /\ Rivals(p, q) /\ Elems(calls[p].ids) = Elems(calls[q].ids)
          /\ calls[p].expired = {} /\ calls[q].expired = {}
          /\ calls[p].pc = "done" /\ calls[q].pc = "done" )
        => Admitted(p) \/ Admitted(q)

\* ------------------------------------------------- claims: a limit of zero

\* C39 as claimed: for every limit, zero included, the stored counter of an
\* hour bucket never exceeds the limit and no more tryConsume calls of the
\* hour return true than the limit allows; with limit 0 no call returns true.
C39_CounterWithinEveryLimit ==
    /\ \A it \in budget : it.count <= limit
    /\ \A k \in HourKeys : grants[k] <= limit

\* ------------------------------------ claims: the record and the tolerance

\* C40 as claimed: under every configuration the constructor accepts, a signed
\* request whose delivery was handled and marked, and that arrives again with
\* its timestamp still within the tolerance, is reported as a duplicate.
C40_MarkedDeliveryStaysDuplicate ==
    [][\A h \in Handlers :
          ( /\ handlers[h].pc = "hasSeen" /\ handlers'[h].verify = "returned"
            /\ handlers[h].afterHandled
            /\ Abs(clock - handlers[h].timestamp) <= config.toleranceSeconds )
          => handlers'[h].duplicate]_vars

====
